---- MODULE Spec2Model ----
(***************************************************************************)
(* WhatsApp relay (Express + Firestore): the webhook message routing, the  *)
(* chat store writer with its retention policy, the chat history reads and *)
(* the bulk dispatch orchestrator.                                         *)
(*                                                                         *)
(* Every `await` of a handler is one atomic step; the synchronous code     *)
(* after an await belongs to the step of that await.  Handlers of          *)
(* different HTTP requests interleave freely at their awaits.  Every call  *)
(* to the document store or to the provider may fail (the budget MaxEvents *)
(* bounds how many do in the chat endpoints).                              *)
(***************************************************************************)
EXTENDS Integers, Sequences, FiniteSets, TLC

----------------------------------------------------------------------------
(* Bounds of the model *)

\* handlers started plus calls failed in one behaviour
MaxEvents == 3
\* handlers in flight at one time
MaxInFlight == 2
\* largest number of records a partition holds when the server starts
MaxPreload == 12
\* messages in one webhook delivery
MaxMsgs == 2
\* documents in the teamRegistrations collection
MaxRegs == 2
\* recipients in one bulk dispatch
MaxTeams == 3
\* calls of the template sender in one behaviour
MaxCalls == 2
\* records of a partition that failed retention runs have left behind
Backlog == 17

(* Program constants *)
\* the provider's error code for a parameter value that is not valid
PARAM_INVALID == 131009

MAX_CHAT_MESSAGES == 10
HistoryLimit == 10

----------------------------------------------------------------------------
(* Strings are sequences of one-character strings *)

Digits == {"0", "1", "2", "3", "4", "5", "6", "7", "8", "9"}

IsDigits(s) == \A k \in 1..Len(s) : s[k] \in Digits

\* String.prototype.slice(-10): the last 10 characters, the whole string
\* when it is shorter
Slice10(s) == IF Len(s) > 10 THEN SubSeq(s, Len(s) - 9, Len(s)) ELSE s

KeyA == <<"9", "8", "7", "6", "5", "4", "3", "2", "1", "0">>
KeyB == <<"8", "7", "6", "5", "4", "3", "2", "1", "0", "9">>
PhoneA == <<"9", "1">> \o KeyA
PhoneB == <<"9", "1">> \o KeyB
NoPhone == <<>>

Keys == {KeyA, KeyB}
Classes == {"whatsappChats", "supportChats"}
Partitions == Classes \X Keys

----------------------------------------------------------------------------
(* JSON values of a request body: [t |-> type, s |-> characters].  A number *)
(* stands for any non-zero number.                                          *)

Str(chars) == [t |-> "string", s |-> chars]
Undefined == [t |-> "undefined", s |-> <<>>]
Num == [t |-> "number", s |-> <<>>]
NullItem == [t |-> "null"]

\* JavaScript's !v
Falsy(v) == v.t \in {"undefined", "null"} \/ (v.t = "string" /\ v.s = <<>>)

\* String.prototype.trim()
Trim(chars) ==
    LET keep == {k \in 1..Len(chars) : chars[k] # " "} IN
    IF keep = {} THEN <<>>
    ELSE SubSeq(chars, CHOOSE a \in keep : \A b \in keep : a <= b,
                       CHOOSE a \in keep : \A b \in keep : a >= b)

\* !v || v.trim() === "": "yes", "no", or "throws" when v has no trim method
IsBlank(v) ==
    IF Falsy(v) THEN "yes"
    ELSE IF v.t # "string" THEN "throws"
    ELSE IF Trim(v.s) = <<>> THEN "yes" ELSE "no"

\* The template descriptors the server starts with
Descriptor(language, bodyParams, header) ==
    [language |-> language, bodyParams |-> bodyParams, header |-> header]

NotEligible == <<"n", "o", "t", "_", "e", "l", "i", "g", "i", "b", "l", "e">>
Verified == <<"v", "e", "r", "i", "f", "i", "e", "d">>
Pending == <<"p", "e", "n", "d", "i", "n", "g">>
GameGreeting == <<"g", "a", "m", "e", "_", "g", "r", "e", "e", "t", "i", "n", "g">>

TEMPLATE_META ==
    [name \in {NotEligible, Verified, Pending, GameGreeting} |->
        Descriptor("en_US", 0, "null")]

CallIdle ==
    [pc |-> "idle", to |-> <<>>, templateName |-> Undefined, params |-> <<>>,
     tmBefore |-> <<>>, payload |-> <<>>, error |-> "", posted |-> FALSE,
     outcome |-> <<>>]

BulkIdle ==
    [pc |-> "idle", status |-> 0, error |-> "", teams |-> <<>>,
     templateName |-> Undefined, tournament |-> Undefined, date |-> Undefined,
     templateParams |-> Undefined, i |-> 0, payload |-> <<>>,
     successful |-> 0, failed |-> 0, details |-> <<>>,
     historyRecord |-> <<>>, historyId |-> "", warning |-> FALSE,
     historyAdds |-> 0]

----------------------------------------------------------------------------
VARIABLES
    messages,           \* <<class, key>> -> the documents of the `messages` subcollection
    chatDocs,           \* <<class, key>> -> the partition document (exists, lastUpdated)
    teamRegistrations,  \* the documents of the teamRegistrations collection, in query order
    h,                  \* handler -> its request, its position and its locals
    now,                \* the last value new Date() returned
    nextId,             \* the next document id the store assigns
    failures,           \* calls that have failed so far
    appended,           \* history: <<class, key>> -> every record ever added
    lastOp,             \* history: <<class, key>> -> the last append or retention run
    preloaded,          \* history: the number of records per partition at server start
    bulk,               \* the bulk dispatch handler: its request, position and locals
    templateMeta,       \* TEMPLATE_META: template name -> descriptor
    bulkMessageHistory, \* the documents of the bulkMessageHistory collection
    providerLog,        \* history: the template sends posted and the pauses started
    call,               \* a call of sendTemplateMessageWithParams: its arguments and position
    senderLog           \* history: how the calls of the template sender ended

bulkVars == <<bulk, templateMeta, bulkMessageHistory, providerLog, call, senderLog>>

vars == <<messages, chatDocs, teamRegistrations, h, now, nextId, failures, appended,
          lastOp, preloaded, bulk, templateMeta, bulkMessageHistory, providerLog,
          call, senderLog>>

Procs == 1..MaxEvents

Min(a, b) == IF a < b THEN a ELSE b

----------------------------------------------------------------------------
(* The store at server start: every partition holds the n records of n     *)
(* earlier writes (n = 0, MAX_CHAT_MESSAGES, or more after failed trims).  *)
(* The two oldest of them were written within one millisecond and share a  *)
(* timestamp; every later reading of the clock gives a new value.          *)

PreloadTs(i) == IF i = 1 THEN 2 ELSE i

Preload(n) == {[id |-> i, ts |-> PreloadTs(i), from |-> "user", text |-> "old"] : i \in 1..n}

PreloadSizes == {0, MAX_CHAT_MESSAGES, MaxPreload}

Registered(key) == [phoneNumber |-> key, images |-> {}, verificationStatus |-> "pending"]

RegConfigs == {<<>>, <<Registered(KeyA)>>}

Idle == [kind |-> "none", pc |-> "idle", status |-> 0,
         phone |-> NoPhone, key |-> NoPhone, cls |-> "whatsappChats",
         text |-> "", ts |-> 0, total |-> 0, excess |-> 0, sel |-> {},
         msgs |-> <<>>, i |-> 0, url |-> "", result |-> <<>>,
         mode |-> "", token |-> "", challenge |-> "",
         posted |-> FALSE, docSet |-> FALSE, failedAt |-> "", seen |-> {},
         kept |-> FALSE, upserted |-> {}, retFor |-> {}, docRef |-> 0,
         req |-> Undefined, to |-> <<>>, outcome |-> <<>>,
         regAtLookup |-> FALSE, wrote |-> {}, reached |-> {}, mediaFailed |-> {},
         overlap |-> FALSE, retRan |-> FALSE, retFailed |-> FALSE,
         prev |-> "none", nDeleted |-> 0, sizeAtDone |-> 0]

InitStore ==
    /\ \E n \in PreloadSizes :
          /\ messages = [part \in Partitions |-> Preload(n)]
          /\ appended = [part \in Partitions |-> Preload(n)]
          /\ chatDocs = [part \in Partitions |->
                            [exists |-> n > 0, lastUpdated |-> PreloadTs(n)]]
          /\ now = PreloadTs(n)
          /\ nextId = n + 1
          /\ preloaded = n
    /\ teamRegistrations \in RegConfigs
    /\ h = [p \in Procs |-> Idle]
    /\ failures = 0
    /\ lastOp = [part \in Partitions |-> "none"]
    /\ bulk = BulkIdle
    /\ bulkMessageHistory = <<>>
    /\ providerLog = <<>>
    /\ call = CallIdle
    /\ senderLog = <<>>

Init == InitStore /\ templateMeta = TEMPLATE_META

----------------------------------------------------------------------------
(* Helpers on handlers *)

InFlight(hr) == hr.pc \notin {"idle", "done"}

Writer(hr) == hr.kind \in {"webhook", "chatSend", "supportSend", "cleanup"}

Part(hr) == <<hr.cls, hr.key>>

Events == Cardinality({p \in Procs : h[p].pc # "idle"}) + failures

CanFail == Events < MaxEvents

\* A handler that answers: status is the HTTP status of its one response
Respond(hr, status) == [hr EXCEPT !.pc = "done", !.status = status]

\* History: what the partition held when the handler answered
Stamp(hr, msgs) ==
    IF hr.pc = "done" /\ Part(hr) \in Partitions
    THEN [hr EXCEPT !.sizeAtDone = Cardinality(msgs[Part(hr)]),
                    !.kept = \A w \in hr.wrote : w.rec \in msgs[<<w.cls, w.key>>]]
    ELSE hr

\* History: a handler starts; it and the writers in flight on the same key
\* have now run concurrently
Started(p, hr) ==
    [q \in Procs |->
        IF q = p
        THEN [hr EXCEPT !.overlap =
                 \E r \in Procs \ {p} :
                     InFlight(h[r]) /\ Writer(h[r]) /\ h[r].key = hr.key]
        ELSE IF InFlight(hr) /\ Writer(hr) /\ InFlight(h[q]) /\ h[q].key = hr.key
             THEN [h[q] EXCEPT !.overlap = TRUE]
             ELSE h[q]]

\* Handlers are started in the order of their numbers (the numbers are labels)
MayStart(p) ==
    /\ h[p].pc = "idle"
    /\ IF p = 1 THEN TRUE ELSE h[p - 1].pc # "idle"
    /\ Events < MaxEvents
    /\ Cardinality({q \in Procs : InFlight(h[q])}) < MaxInFlight

----------------------------------------------------------------------------
(* POST /webhook: the per-message loop *)

HasText(m) == m.text # ""
HasImage(m) == m.image # ""

\* The first message at or after index i that takes the text or the image
\* branch; Len + 1 when there is none
RECURSIVE NextWork(_, _)
NextWork(msgs, i) ==
    IF i > Len(msgs) THEN i
    ELSE IF HasText(msgs[i]) \/ HasImage(msgs[i]) THEN i
    ELSE NextWork(msgs, i + 1)

\* The loop from message i on: the locals of the iteration that reaches an
\* await (from, shortPhone, timestamp = the new clock value), or the
\* response after the last message
WebhookLoop(hr, i) ==
    LET j == NextWork(hr.msgs, i) IN
    IF j > Len(hr.msgs) THEN Respond([hr EXCEPT !.i = j], 200)
    ELSE LET m == hr.msgs[j] IN
         [hr EXCEPT !.i = j, !.phone = m.from, !.key = Slice10(m.from),
                    !.ts = now + 1, !.text = m.text,
                    !.pc = IF HasText(m) THEN "lookup" ELSE "mediaUrl",
                    !.reached = @ \cup {j}]

\* After the text branch of message i: its image branch, or the next message
AfterText(hr) ==
    IF HasImage(hr.msgs[hr.i]) THEN [hr EXCEPT !.pc = "mediaUrl"]
    ELSE WebhookLoop(hr, hr.i + 1)

\* What follows a retention run in its caller
AfterRetention(hr) ==
    IF hr.kind = "webhook" THEN AfterText(hr) ELSE Respond(hr, 200)

\* (mutant) the error of a retention step reaches the caller's catch
AfterRetentionFailureThrows(hr) == Respond(hr, 500)

\* The catch of the retention policy logs the error; the policy returns
\* normally to its caller
AfterRetentionFailure(hr) == AfterRetention(hr)

\* The clock after a step: read when the loop entered a further message
ClockAfter(old, new) == IF new.i # old.i /\ new.pc # "done" THEN now + 1 ELSE now

WebhookStart(p, body) ==
    /\ MayStart(p)
    /\ LET hr0 == [Idle EXCEPT !.kind = "webhook", !.pc = "run", !.msgs = body.messages]
           hr1 == IF ~body.valid THEN Respond(hr0, 404)
                  ELSE IF ~body.hasMessages THEN Respond(hr0, 200)
                  ELSE WebhookLoop(hr0, 1)
       IN /\ h' = Started(p, Stamp(hr1, messages))
          /\ now' = ClockAfter(hr0, hr1)
    /\ UNCHANGED <<messages, chatDocs, teamRegistrations, nextId, failures, appended, lastOp, preloaded>>
    /\ UNCHANGED bulkVars

\* teamRegistrations.where(phoneNumber == shortPhone).limit(1).get()
IsRegistered(key) ==
    \E k \in 1..Len(teamRegistrations) : teamRegistrations[k].phoneNumber = key

\* (mutant) the two branches exchanged
RouteClassSwapped(isRegistered) == IF isRegistered THEN "supportChats" ELSE "whatsappChats"

\* isRegistered ? whatsappChats : supportChats
RouteClass(isRegistered) == IF isRegistered THEN "whatsappChats" ELSE "supportChats"

WebhookLookup(p) ==
    /\ h[p].pc = "lookup"
    /\ \/ /\ h' = [h EXCEPT ![p] = [@ EXCEPT !.pc = "add",
                                       !.cls = RouteClass(IsRegistered(h[p].key)),
                                       !.regAtLookup = IsRegistered(h[p].key)]]
          /\ UNCHANGED failures
       \/ /\ CanFail
          /\ failures' = failures + 1
          /\ h' = [h EXCEPT ![p] =
                      Stamp(Respond([@ EXCEPT !.failedAt = "lookup"], 500), messages)]
    /\ UNCHANGED <<messages, chatDocs, teamRegistrations, now, nextId, appended, lastOp, preloaded>>
    /\ UNCHANGED bulkVars

----------------------------------------------------------------------------
(* Chat Store Writer: messages.add(...), then doc.set({lastUpdated}, merge) *)

Sender(hr) == IF hr.kind = "webhook" THEN "user" ELSE "admin"

StoreAdd(p) ==
    /\ h[p].pc = "add"
    /\ \/ LET rec == [id |-> nextId, ts |-> h[p].ts, from |-> Sender(h[p]),
                      text |-> h[p].text]
          IN /\ messages' = [messages EXCEPT ![Part(h[p])] = @ \cup {rec}]
             /\ appended' = [appended EXCEPT ![Part(h[p])] = @ \cup {rec}]
             /\ lastOp' = [lastOp EXCEPT ![Part(h[p])] = "append"]
             /\ nextId' = nextId + 1
             /\ h' = [h EXCEPT ![p] = [@ EXCEPT !.pc = "set",
                        !.wrote = @ \cup {[i |-> h[p].i, cls |-> h[p].cls,
                                           key |-> h[p].key, rec |-> rec,
                                           registered |-> h[p].regAtLookup]}]]
             /\ UNCHANGED failures
       \/ /\ CanFail
          /\ failures' = failures + 1
          /\ h' = [h EXCEPT ![p] =
                      Stamp(Respond([@ EXCEPT !.failedAt = "add"], 500), messages)]
          /\ UNCHANGED <<messages, appended, nextId, lastOp>>
    /\ UNCHANGED <<chatDocs, teamRegistrations, now, preloaded>>
    /\ UNCHANGED bulkVars

\* (mutant) the handler goes on to the retention policy after a failed upsert
AfterUpsertFailureTrims(hr) == [hr EXCEPT !.failedAt = "set", !.pc = "count"]

\* A rejected doc.set reaches the catch of the handler: 500, nothing further
AfterUpsertFailure(hr) == Respond([hr EXCEPT !.failedAt = "set"], 500)

StoreSet(p) ==
    /\ h[p].pc = "set"
    /\ \/ /\ chatDocs' = [chatDocs EXCEPT ![Part(h[p])] =
                             [exists |-> TRUE, lastUpdated |-> h[p].ts]]
          /\ h' = [h EXCEPT ![p] = [@ EXCEPT !.pc = "count", !.docSet = TRUE,
                                               !.upserted = @ \cup {h[p].i}]]
          /\ UNCHANGED failures
       \/ /\ CanFail
          /\ failures' = failures + 1
          /\ h' = [h EXCEPT ![p] = Stamp(AfterUpsertFailure(@), messages)]
          /\ UNCHANGED chatDocs
    /\ UNCHANGED <<messages, teamRegistrations, now, nextId, appended, lastOp, preloaded>>
    /\ UNCHANGED bulkVars

----------------------------------------------------------------------------
(* Retention Policy: maintainChatLimit / maintainSupportChatLimit.  Three  *)
(* awaits: the count, the query of the oldest, the batch commit.  An error *)
(* at any of them is caught inside the function.                           *)

Lowest(msgs, t) == {m \in msgs : m.ts < t}
UpTo(msgs, t) == {m \in msgs : m.ts <= t}

\* (mutant) the query returns the k newest documents
OldestSetsDescending(msgs, k) ==
    IF k >= Cardinality(msgs) THEN {msgs}
    ELSE IF k <= 0 THEN {{}}
    ELSE {x \in SUBSET msgs :
             /\ Cardinality(x) = k
             /\ \A d \in x : \A m \in msgs \ x : d.ts >= m.ts}

\* orderBy("timestamp", "asc").limit(k): the k oldest documents of msgs (all
\* of them when there are fewer); documents with equal timestamps come in
\* the order of their random ids, that is in any order
OldestSets(msgs, k) ==
    IF k >= Cardinality(msgs) THEN {msgs}
    ELSE IF k <= 0 THEN {{}}
    ELSE LET t == CHOOSE u \in {m.ts : m \in msgs} :
                      /\ Cardinality(Lowest(msgs, u)) < k
                      /\ Cardinality(UpTo(msgs, u)) >= k
             lo == Lowest(msgs, t)
             tie == UpTo(msgs, t) \ lo
         IN {lo \cup x : x \in {y \in SUBSET tie : Cardinality(y) = k - Cardinality(lo)}}

\* orderBy("timestamp", "desc").limit(k): the k newest
NewestSets(msgs, k) ==
    {msgs \ x : x \in OldestSets(msgs, Cardinality(msgs) - k)}

\* (mutant) a run removes one record, whatever the excess
ExcessCountOne(total) == IF total > MAX_CHAT_MESSAGES THEN 1 ELSE 0

\* (mutant) the limit compared and subtracted one too high
ExcessCountOffByOne(total) ==
    IF total > MAX_CHAT_MESSAGES + 1 THEN total - (MAX_CHAT_MESSAGES + 1) ELSE 0

\* excessCount, 0 when totalMessages is within the limit
ExcessCount(total) ==
    IF total > MAX_CHAT_MESSAGES THEN total - MAX_CHAT_MESSAGES ELSE 0

\* (mutant) only one of the selected documents is deleted
BatchDeleteOne(msgs, sel) ==
    IF msgs \cap sel = {} THEN msgs ELSE msgs \ {CHOOSE m \in msgs \cap sel : TRUE}

\* batch.delete of every selected document, then commit: deleting a document
\* that is already gone is not an error
BatchDelete(msgs, sel) == msgs \ sel

\* History: how a retention run on the partition ended
RunEnd(hr) ==
    IF hr.overlap THEN "raced" ELSE IF hr.retFailed THEN "failed" ELSE "trimmed"

RetCount(p) ==
    /\ h[p].pc = "count"
    /\ \/ LET total == Cardinality(messages[Part(h[p])])
              hr0 == [h[p] EXCEPT !.retRan = TRUE, !.total = total,
                                  !.retFor = @ \cup {h[p].i},
                                  !.excess = ExcessCount(total),
                                  !.prev = lastOp[Part(h[p])]]
              hr1 == IF hr0.excess > 0 THEN [hr0 EXCEPT !.pc = "select"]
                     ELSE AfterRetention(hr0)
          IN /\ h' = [h EXCEPT ![p] = Stamp(hr1, messages)]
             /\ now' = ClockAfter(h[p], hr1)
             /\ lastOp' = IF hr0.excess > 0 THEN lastOp
                          ELSE [lastOp EXCEPT ![Part(h[p])] = RunEnd(hr0)]
             /\ UNCHANGED failures
       \/ /\ CanFail
          /\ failures' = failures + 1
          /\ LET hr0 == [h[p] EXCEPT !.retRan = TRUE, !.retFailed = TRUE,
                                     !.retFor = @ \cup {h[p].i},
                                     !.prev = lastOp[Part(h[p])]]
                 hr1 == AfterRetentionFailure(hr0)
             IN /\ h' = [h EXCEPT ![p] = Stamp(hr1, messages)]
                /\ now' = ClockAfter(h[p], hr1)
                /\ lastOp' = [lastOp EXCEPT ![Part(h[p])] = RunEnd(hr0)]
    /\ UNCHANGED <<messages, chatDocs, teamRegistrations, nextId, appended, preloaded>>
    /\ UNCHANGED bulkVars

RetSelect(p) ==
    /\ h[p].pc = "select"
    /\ \/ /\ \E s \in OldestSets(messages[Part(h[p])], h[p].excess) :
                h' = [h EXCEPT ![p] = [@ EXCEPT !.sel = s, !.pc = "commit"]]
          /\ UNCHANGED <<now, failures, lastOp>>
       \/ /\ CanFail
          /\ failures' = failures + 1
          /\ LET hr0 == [h[p] EXCEPT !.retFailed = TRUE]
                 hr1 == AfterRetentionFailure(hr0)
             IN /\ h' = [h EXCEPT ![p] = Stamp(hr1, messages)]
                /\ now' = ClockAfter(h[p], hr1)
                /\ lastOp' = [lastOp EXCEPT ![Part(h[p])] = RunEnd(hr0)]
    /\ UNCHANGED <<messages, chatDocs, teamRegistrations, nextId, appended, preloaded>>
    /\ UNCHANGED bulkVars

RetCommit(p) ==
    /\ h[p].pc = "commit"
    /\ \/ LET left == BatchDelete(messages[Part(h[p])], h[p].sel)
              msgs2 == [messages EXCEPT ![Part(h[p])] = left]
              hr0 == [h[p] EXCEPT !.sel = {},
                         !.nDeleted = Cardinality(messages[Part(h[p])]) - Cardinality(left)]
              hr1 == AfterRetention(hr0)
          IN /\ messages' = msgs2
             /\ h' = [h EXCEPT ![p] = Stamp(hr1, msgs2)]
             /\ now' = ClockAfter(h[p], hr1)
             /\ lastOp' = [lastOp EXCEPT ![Part(h[p])] = RunEnd(hr0)]
             /\ UNCHANGED failures
       \/ /\ CanFail
          /\ failures' = failures + 1
          /\ LET hr0 == [h[p] EXCEPT !.sel = {}, !.retFailed = TRUE]
                 hr1 == AfterRetentionFailure(hr0)
             IN /\ h' = [h EXCEPT ![p] = Stamp(hr1, messages)]
                /\ now' = ClockAfter(h[p], hr1)
                /\ lastOp' = [lastOp EXCEPT ![Part(h[p])] = RunEnd(hr0)]
          /\ UNCHANGED messages
    /\ UNCHANGED <<chatDocs, teamRegistrations, nextId, appended, preloaded>>
    /\ UNCHANGED bulkVars

----------------------------------------------------------------------------
(* POST /webhook: the image branch.  Five awaits inside one try: the media *)
(* URL, the download, the upload, the teamRegistrations query and the      *)
(* update of the first matching document.  An error at any of them is      *)
(* caught for that message, and the loop goes on with the next message.    *)

\* cloudinary's secure_url of the upload of media id
SecureUrl(mediaId) == <<"url", mediaId>>

\* (mutant) the error of the image branch ends the delivery with 500
AfterMediaFailureAbort(hr) ==
    Respond([hr EXCEPT !.mediaFailed = @ \cup {hr.i}], 500)

\* The catch of the image branch: the error is logged and the loop goes on
\* with the next message
AfterMediaFailure(hr) ==
    WebhookLoop([hr EXCEPT !.mediaFailed = @ \cup {hr.i}], hr.i + 1)

\* A media call (the media URL, the download, the upload) and what follows
MediaStep(p, at, next) ==
    /\ h[p].pc = at
    /\ \/ /\ h' = [h EXCEPT ![p] = [@ EXCEPT !.pc = next]]
          /\ UNCHANGED <<now, failures>>
       \/ /\ CanFail
          /\ failures' = failures + 1
          /\ LET hr1 == AfterMediaFailure(h[p])
             IN /\ h' = [h EXCEPT ![p] = Stamp(hr1, messages)]
                /\ now' = ClockAfter(h[p], hr1)
    /\ UNCHANGED <<messages, chatDocs, teamRegistrations, nextId, appended, lastOp, preloaded>>
    /\ UNCHANGED bulkVars

MediaUrl(p) == MediaStep(p, "mediaUrl", "download")
MediaDownload(p) == MediaStep(p, "download", "upload")
MediaUpload(p) == MediaStep(p, "upload", "regQuery")

\* teamRegistrations.where(phoneNumber == shortPhone).get(), docs[0]
Matching(key) == {k \in 1..Len(teamRegistrations) : teamRegistrations[k].phoneNumber = key}

\* querySnapshot.docs[0]: the first of the matching documents
FirstMatch(key) == CHOOSE x \in Matching(key) : \A y \in Matching(key) : x <= y

\* (mutant) the update writes the image list instead of adding to it
AttachImageReplace(reg, url) ==
    [reg EXCEPT !.images = {url}, !.verificationStatus = "image_uploaded"]

\* update({images: arrayUnion(secure_url), verificationStatus: "image_uploaded"})
AttachImage(reg, url) ==
    [reg EXCEPT !.images = @ \cup {url}, !.verificationStatus = "image_uploaded"]

RegQuery(p) ==
    /\ h[p].pc = "regQuery"
    /\ \/ /\ LET hr1 == IF Matching(h[p].key) = {}
                        THEN WebhookLoop(h[p], h[p].i + 1)
                        ELSE [h[p] EXCEPT !.pc = "regUpdate",
                                          !.docRef = FirstMatch(h[p].key)]
             IN /\ h' = [h EXCEPT ![p] = Stamp(hr1, messages)]
                /\ now' = ClockAfter(h[p], hr1)
          /\ UNCHANGED failures
       \/ /\ CanFail
          /\ failures' = failures + 1
          /\ LET hr1 == AfterMediaFailure(h[p])
             IN /\ h' = [h EXCEPT ![p] = Stamp(hr1, messages)]
                /\ now' = ClockAfter(h[p], hr1)
    /\ UNCHANGED <<messages, chatDocs, teamRegistrations, nextId, appended, lastOp, preloaded>>
    /\ UNCHANGED bulkVars

\* docRef.update({images: arrayUnion(secure_url), verificationStatus, updatedAt})
RegUpdate(p) ==
    /\ h[p].pc = "regUpdate"
    /\ \/ /\ LET hr1 == WebhookLoop(h[p], h[p].i + 1)
             IN /\ teamRegistrations' = [teamRegistrations EXCEPT ![h[p].docRef] =
                       AttachImage(@, SecureUrl(h[p].msgs[h[p].i].image))]
                /\ h' = [h EXCEPT ![p] = Stamp(hr1, messages)]
                /\ now' = ClockAfter(h[p], hr1)
          /\ UNCHANGED failures
       \/ /\ CanFail
          /\ failures' = failures + 1
          /\ LET hr1 == AfterMediaFailure(h[p])
             IN /\ h' = [h EXCEPT ![p] = Stamp(hr1, messages)]
                /\ now' = ClockAfter(h[p], hr1)
          /\ UNCHANGED teamRegistrations
    /\ UNCHANGED <<messages, chatDocs, nextId, appended, lastOp, preloaded>>
    /\ UNCHANGED bulkVars

----------------------------------------------------------------------------
(* POST /api/chat/send and POST /api/support/send *)

SendClass(kind) == IF kind = "chatSend" THEN "whatsappChats" ELSE "supportChats"

\* (mutant) only the phone number is required
MissingPhoneOnly(phoneNumber, message) == phoneNumber = NoPhone

\* !phoneNumber || !message
MissingFields(phoneNumber, message) == phoneNumber = NoPhone \/ message = ""

\* kind is "chatSend" or "supportSend"; phoneNumber or message may be missing
AdminSendStart(p, kind, phoneNumber, message) ==
    /\ MayStart(p)
    /\ LET hr0 == [Idle EXCEPT !.kind = kind, !.phone = phoneNumber,
                               !.text = message, !.cls = SendClass(kind),
                               !.key = Slice10(phoneNumber)]
           hr1 == IF MissingFields(phoneNumber, message)
                  THEN Respond(hr0, 400)
                  ELSE [hr0 EXCEPT !.pc = "send"]
       IN h' = Started(p, Stamp(hr1, messages))
    /\ UNCHANGED <<messages, chatDocs, teamRegistrations, now, nextId, failures,
                   appended, lastOp, preloaded>>
    /\ UNCHANGED bulkVars

\* axios.post to the provider, then timestamp = new Date() and shortPhone
\* (mutant) the message is recorded although the provider send failed
AfterSendFailureRecords(hr) ==
    [hr EXCEPT !.posted = TRUE, !.failedAt = "send", !.ts = now + 1, !.pc = "add"]

\* A rejected axios.post reaches the catch of the handler: 500, nothing
\* further
AfterSendFailure(hr) == Respond([hr EXCEPT !.posted = TRUE, !.failedAt = "send"], 500)

AdminSendPost(p) ==
    /\ h[p].pc = "send"
    /\ \/ /\ h' = [h EXCEPT ![p] = [@ EXCEPT !.ts = now + 1, !.pc = "add",
                                               !.posted = TRUE]]
          /\ now' = now + 1
          /\ UNCHANGED failures
       \/ /\ CanFail
          /\ failures' = failures + 1
          /\ h' = [h EXCEPT ![p] = Stamp(AfterSendFailure(@), messages)]
          /\ UNCHANGED now
    /\ UNCHANGED <<messages, chatDocs, teamRegistrations, nextId, appended, lastOp, preloaded>>
    /\ UNCHANGED bulkVars

----------------------------------------------------------------------------
(* POST /api/chat/cleanup/:phoneNumber *)

CleanupStart(p, phoneNumber) ==
    /\ MayStart(p)
    /\ LET hr0 == [Idle EXCEPT !.kind = "cleanup", !.phone = phoneNumber,
                               !.cls = "whatsappChats", !.key = Slice10(phoneNumber),
                               !.pc = "count"]
       IN h' = Started(p, hr0)
    /\ UNCHANGED <<messages, chatDocs, teamRegistrations, now, nextId, failures,
                   appended, lastOp, preloaded>>
    /\ UNCHANGED bulkVars

----------------------------------------------------------------------------
(* GET /api/chat/history/:phoneNumber and GET /api/support/history/:phoneNumber *)

RECURSIVE SortDesc(_)
SortDesc(msgs) ==
    IF msgs = {} THEN <<>>
    ELSE LET m == CHOOSE x \in msgs : \A y \in msgs : y.ts <= x.ts
         IN <<m>> \o SortDesc(msgs \ {m})

Reverse(s) == [k \in 1..Len(s) |-> s[Len(s) + 1 - k]]

HistoryClass(kind) == IF kind = "chatHistory" THEN "whatsappChats" ELSE "supportChats"

\* kind is "chatHistory" or "supportHistory"
HistoryStart(p, kind, phoneNumber) ==
    /\ MayStart(p)
    /\ LET hr0 == [Idle EXCEPT !.kind = kind, !.phone = phoneNumber,
                               !.cls = HistoryClass(kind), !.key = Slice10(phoneNumber),
                               !.pc = "docGet"]
       IN h' = Started(p, hr0)
    /\ UNCHANGED <<messages, chatDocs, teamRegistrations, now, nextId, failures,
                   appended, lastOp, preloaded>>
    /\ UNCHANGED bulkVars

HistoryDocGet(p) ==
    /\ h[p].pc = "docGet"
    /\ \/ /\ h' = [h EXCEPT ![p] =
                     IF ~chatDocs[Part(h[p])].exists
                     THEN Stamp(Respond([@ EXCEPT !.result = <<>>,
                                                  !.seen = messages[Part(h[p])]], 200),
                                messages)
                     ELSE [@ EXCEPT !.pc = "query"]]
          /\ UNCHANGED failures
       \/ /\ CanFail
          /\ failures' = failures + 1
          /\ h' = [h EXCEPT ![p] = Stamp(Respond(@, 500), messages)]
    /\ UNCHANGED <<messages, chatDocs, teamRegistrations, now, nextId, appended, lastOp, preloaded>>
    /\ UNCHANGED bulkVars

HistoryQuery(p) ==
    /\ h[p].pc = "query"
    /\ \/ /\ \E s \in NewestSets(messages[Part(h[p])], HistoryLimit) :
                h' = [h EXCEPT ![p] =
                        Stamp(Respond([@ EXCEPT !.result = Reverse(SortDesc(s)),
                                                 !.seen = messages[Part(h[p])]], 200),
                              messages)]
          /\ UNCHANGED failures
       \/ /\ CanFail
          /\ failures' = failures + 1
          /\ h' = [h EXCEPT ![p] = Stamp(Respond(@, 500), messages)]
    /\ UNCHANGED <<messages, chatDocs, teamRegistrations, now, nextId, appended, lastOp, preloaded>>
    /\ UNCHANGED bulkVars

----------------------------------------------------------------------------
(* The chat endpoints under concurrent requests for one phone number *)

TextMsg(from, text) == [from |-> from, text |-> text, image |-> ""]

Body(msgs) == [valid |-> TRUE, hasMessages |-> TRUE, messages |-> msgs]

TextBodies == {Body(<<TextMsg(PhoneA, "t1")>>)}

Next ==
    \E p \in Procs :
        \/ \E body \in TextBodies : WebhookStart(p, body)
        \/ WebhookLookup(p)
        \/ \E kind \in {"chatSend", "supportSend"} : AdminSendStart(p, kind, PhoneA, "hi")
        \/ AdminSendPost(p)
        \/ StoreAdd(p)
        \/ StoreSet(p)
        \/ RetCount(p)
        \/ RetSelect(p)
        \/ RetCommit(p)
        \/ CleanupStart(p, PhoneA)
        \/ \E kind \in {"chatHistory", "supportHistory"} : HistoryStart(p, kind, PhoneA)
        \/ HistoryDocGet(p)
        \/ HistoryQuery(p)

Spec == Init /\ [][Next]_vars

\* The same endpoints on a store whose partitions hold a backlog: Backlog
\* records each, left by retention runs that failed (or written before the
\* retention policy existed, which is what the cleanup endpoint is for)
InitBacklog ==
    /\ messages = [part \in Partitions |-> Preload(Backlog)]
    /\ appended = [part \in Partitions |-> Preload(Backlog)]
    /\ chatDocs = [part \in Partitions |->
                      [exists |-> TRUE, lastUpdated |-> PreloadTs(Backlog)]]
    /\ now = PreloadTs(Backlog)
    /\ nextId = Backlog + 1
    /\ preloaded = Backlog
    /\ teamRegistrations \in RegConfigs
    /\ h = [p \in Procs |-> Idle]
    /\ failures = 0
    /\ lastOp = [part \in Partitions |-> "none"]
    /\ bulk = BulkIdle
    /\ bulkMessageHistory = <<>>
    /\ providerLog = <<>>
    /\ call = CallIdle
    /\ senderLog = <<>>
    /\ templateMeta = TEMPLATE_META

SpecBacklog == InitBacklog /\ [][Next]_vars

----------------------------------------------------------------------------
(* One webhook delivery: every shape of the payload *)

Senders == {PhoneA, PhoneB}

InboundMessages ==
    {[from |-> f, text |-> t, image |-> g] :
        f \in Senders, t \in {"", "t1"}, g \in {"", "img1", "img2"}}

RECURSIVE SeqsUpTo(_, _)
SeqsUpTo(S, n) ==
    IF n = 0 THEN {<<>>}
    ELSE LET shorter == SeqsUpTo(S, n - 1)
         IN shorter \cup {Append(q, x) : q \in {r \in shorter : Len(r) = n - 1}, x \in S}

WebhookBodies ==
    {[valid |-> FALSE, hasMessages |-> FALSE, messages |-> <<>>],
     [valid |-> TRUE, hasMessages |-> FALSE, messages |-> <<>>]}
    \cup {Body(msgs) : msgs \in SeqsUpTo(InboundMessages, MaxMsgs)}

\* The registration subsystem stores a Registration for a phone key
RegistrationCreated(key) ==
    /\ Len(teamRegistrations) < MaxRegs
    /\ teamRegistrations' = Append(teamRegistrations, Registered(key))
    /\ UNCHANGED <<messages, chatDocs, h, now, nextId, failures, appended, lastOp, preloaded>>
    /\ UNCHANGED bulkVars

NextWebhook ==
    \/ \E body \in WebhookBodies : WebhookStart(1, body)
    \/ WebhookLookup(1)
    \/ StoreAdd(1)
    \/ StoreSet(1)
    \/ RetCount(1)
    \/ RetSelect(1)
    \/ RetCommit(1)
    \/ MediaUrl(1)
    \/ MediaDownload(1)
    \/ MediaUpload(1)
    \/ RegQuery(1)
    \/ RegUpdate(1)
    \/ \E key \in Keys : RegistrationCreated(key)

SpecWebhook == Init /\ [][NextWebhook]_vars

----------------------------------------------------------------------------
(* sendTemplateMessageWithParams: the synchronous part up to axios.post    *)

\* params.x is truthy
Truthy(v) == ~Falsy(v)

NoParams ==
    [t |-> "undefined", tournament |-> Undefined, date |-> Undefined,
     body |-> <<>>, hasBody |-> FALSE, imageUrl |-> Undefined, videoUrl |-> Undefined]

\* The header component, for a descriptor with a media header whose URL is
\* supplied
HeaderComponents(meta, params) ==
    IF meta.header = "image" /\ Truthy(params.imageUrl)
    THEN <<[type |-> "header", parameters |-> <<[type |-> "image", link |-> params.imageUrl.s]>>]>>
    ELSE IF meta.header = "video" /\ Truthy(params.videoUrl)
    THEN <<[type |-> "header", parameters |-> <<[type |-> "video", link |-> params.videoUrl.s]>>]>>
    ELSE <<>>

\* (mutant) the date is pushed before the tournament
BodyParametersDateFirst(params) ==
    (IF Truthy(params.date) THEN <<[type |-> "text", text |-> params.date.s]>> ELSE <<>>)
    \o (IF Truthy(params.tournament) THEN <<[type |-> "text", text |-> params.tournament.s]>> ELSE <<>>)
    \o (IF params.hasBody THEN [k \in 1..Len(params.body) |->
                                   [type |-> "text", text |-> params.body[k]]]
        ELSE <<>>)

\* bodyParameters: tournament, date, then the elements of params.body
BodyParameters(params) ==
    (IF Truthy(params.tournament) THEN <<[type |-> "text", text |-> params.tournament.s]>> ELSE <<>>)
    \o (IF Truthy(params.date) THEN <<[type |-> "text", text |-> params.date.s]>> ELSE <<>>)
    \o (IF params.hasBody THEN [k \in 1..Len(params.body) |->
                                   [type |-> "text", text |-> params.body[k]]]
        ELSE <<>>)

\* TEMPLATE_META is a plain object: a name that Object.prototype defines
\* ("constructor") is found on it although the table has no such entry.
\* What is found is not a descriptor: its language and header are
\* undefined, and its bodyParams (undefined) is not > 0.
Constructor == <<"c", "o", "n", "s", "t", "r", "u", "c", "t", "o", "r">>
ObjectPrototype == {Constructor}
Inherited == [language |-> "undefined", bodyParams |-> 0, header |-> "undefined"]

\* TEMPLATE_META[templateName] is truthy
Found(tm, name) == name \in DOMAIN tm \/ name \in ObjectPrototype

\* TEMPLATE_META after the fallback: a name that is not found gets the
\* text-only descriptor
AutoAdd(tm, name) ==
    IF Found(tm, name) THEN tm
    ELSE [x \in DOMAIN tm \cup {name} |->
             IF x = name THEN Descriptor("en_US", 0, "null") ELSE tm[x]]

\* const meta = TEMPLATE_META[templateName], after the fallback
MetaOf(tm, name) == IF name \in DOMAIN tm THEN tm[name] ELSE Inherited

\* (mutant) a body with too few parameters is let through
BodyMismatchFewerOk(assembled, expected) == assembled > expected

\* bodyParameters.length !== meta.bodyParams
BodyMismatch(assembled, expected) == assembled # expected

\* What the sender does before the provider is called: the error it throws
\* ("" when none), the payload, and TEMPLATE_META after the call
PrepareSend(to, templateName, params, tm) ==
    IF to = <<>> \/ Trim(to) = <<>>
    THEN [error |-> "Phone number is required", payload |-> <<>>, tm |-> tm]
    ELSE IF IsBlank(templateName) = "yes"
    THEN [error |-> "Template name is required", payload |-> <<>>, tm |-> tm]
    ELSE LET name == templateName.s
             tm2 == AutoAdd(tm, name)
             meta == MetaOf(tm2, name)
             bodyParameters == BodyParameters(params)
             components ==
                 HeaderComponents(meta, params)
                 \o (IF meta.bodyParams > 0
                     THEN <<[type |-> "body", parameters |-> bodyParameters]>>
                     ELSE <<>>)
         IN IF meta.bodyParams > 0 /\ BodyMismatch(Len(bodyParameters), meta.bodyParams)
            THEN [error |-> "body params mismatch", payload |-> <<>>, tm |-> tm2]
            ELSE [error |-> "",
                  payload |-> <<[to |-> to, name |-> name, language |-> meta.language,
                                 components |-> components]>>,
                  tm |-> tm2]

\* How a call of axios.post ends: with a response (of an error status when
\* ok is FALSE), or with an error that has a request, a code, or neither
Outcome(ok, response, apiError, request, code) ==
    [ok |-> ok, response |-> response, apiError |-> apiError, request |-> request,
     code |-> code]

Delivered == Outcome(TRUE, TRUE, FALSE, TRUE, "")
Rejected == Outcome(FALSE, TRUE, TRUE, TRUE, "ERR_BAD_REQUEST")
BadStatus == Outcome(FALSE, TRUE, FALSE, TRUE, "ERR_BAD_RESPONSE")
TimedOut == Outcome(FALSE, FALSE, FALSE, TRUE, "ECONNABORTED")
Unreachable == Outcome(FALSE, FALSE, FALSE, TRUE, "ERR_NETWORK")
NotSent == Outcome(FALSE, FALSE, FALSE, FALSE, "ERR_INVALID_URL")

\* The message of the error the sender throws for a failed call
SendError(o) ==
    IF o.response
    THEN IF o.apiError THEN "WhatsApp API Error" ELSE "WhatsApp API returned status"
    ELSE IF o.request THEN "No response from WhatsApp API - network or timeout issue"
    ELSE IF o.code = "ECONNABORTED" THEN "WhatsApp API request timeout"
    ELSE "Request setup error"

----------------------------------------------------------------------------
(* POST /api/bulk-message/send *)

Team(teamId, phoneNumber, teamName) ==
    [t |-> "object", teamId |-> teamId, phoneNumber |-> phoneNumber, teamName |-> teamName]

\* The validation of the request body: the status it answers, 0 when the
\* body passes.  A null entry of teams makes the filter callback throw,
\* which the handler's outer catch answers with 500; so does a template
\* name or tournament that is not a string.
Validate(body) ==
    IF body.teams.t # "array" THEN 400
    ELSE IF Len(body.teams.items) = 0 THEN 400
    ELSE IF IsBlank(body.templateName) = "yes" THEN 400
    ELSE IF IsBlank(body.templateName) = "throws" THEN 500
    ELSE IF IsBlank(body.tournament) = "yes" THEN 400
    ELSE IF IsBlank(body.tournament) = "throws" THEN 500
    ELSE LET items == body.teams.items
             IsInvalid(k) == \/ Falsy(items[k].teamId)
                             \/ Falsy(items[k].phoneNumber)
                             \/ Falsy(items[k].teamName)
         IN IF \E k \in 1..Len(items) : items[k].t = "null" THEN 500
            ELSE IF \E k \in 1..Len(items) : IsInvalid(k) THEN 400
            ELSE 0

\* team.phoneNumber?.trim(), then the country code: the number to send to,
\* or the error thrown
Normalize(phoneNumber) ==
    IF phoneNumber.t # "string"
    THEN [error |-> "phoneNumber.trim is not a function", to |-> <<>>]
    ELSE LET trimmed == Trim(phoneNumber.s) IN
         IF trimmed = <<>> THEN [error |-> "Phone number is empty", to |-> <<>>]
         ELSE IF Len(trimmed) = 10 THEN [error |-> "", to |-> <<"9", "1">> \o trimmed]
         ELSE IF Len(trimmed) # 12 \/ SubSeq(trimmed, 1, 2) # <<"9", "1">>
         THEN [error |-> "Invalid phone number format", to |-> <<>>]
         ELSE [error |-> "", to |-> trimmed]

\* (mutant) the catch counts the failure and records no detail
RecordFailedNoDetail(b, team, message) == [b EXCEPT !.failed = @ + 1]

\* The per-recipient catch: failed++ and a "failed" detail with the message
RecordFailed(b, team, message) ==
    [b EXCEPT !.failed = @ + 1,
              !.details = Append(@, [teamId |-> team.teamId, teamName |-> team.teamName,
                                     phoneNumber |-> team.phoneNumber,
                                     status |-> "failed", error |-> message])]

\* successful++ and a "success" detail
RecordSuccess(b, team) ==
    [b EXCEPT !.successful = @ + 1,
              !.details = Append(@, [teamId |-> team.teamId, teamName |-> team.teamName,
                                     phoneNumber |-> team.phoneNumber,
                                     status |-> "success"])]

\* templateParams || { tournament, date }
ParamsOf(b) ==
    IF b.templateParams.t # "undefined" THEN b.templateParams
    ELSE [NoParams EXCEPT !.t = "object", !.tournament = b.tournament, !.date = b.date]

\* (mutant) the history record without the per-recipient details
HistoryRecordNoResults(b, sentDate) ==
    [tournament |-> b.tournament.s, templateName |-> b.templateName.s,
     totalTeams |-> Len(b.teams), successfulCount |-> b.successful,
     failedCount |-> b.failed, sentDate |-> sentDate,
     teamIds |-> [k \in 1..Len(b.teams) |-> b.teams[k].teamId],
     results |-> <<>>]

\* The history record built after the loop
HistoryRecord(b, sentDate) ==
    [tournament |-> b.tournament.s, templateName |-> b.templateName.s,
     totalTeams |-> Len(b.teams), successfulCount |-> b.successful,
     failedCount |-> b.failed, sentDate |-> sentDate,
     teamIds |-> [k \in 1..Len(b.teams) |-> b.teams[k].teamId],
     results |-> b.details]

\* The loop from recipient i on, up to its next await: the post of a send,
\* or the add of the history record after the last recipient.  st holds the
\* handler (b), TEMPLATE_META (tm) and the log.
RECURSIVE BulkLoop(_, _)
BulkLoop(st, i) ==
    IF i > Len(st.b.teams)
    THEN [st EXCEPT !.b = [@ EXCEPT !.i = i, !.pc = "history",
                                    !.historyRecord = <<HistoryRecord(st.b, now + 1)>>]]
    ELSE LET team == st.b.teams[i]
             norm == Normalize(team.phoneNumber)
             prep == PrepareSend(norm.to, st.b.templateName, ParamsOf(st.b), st.tm)
         IN IF norm.error # ""
            THEN BulkLoop([st EXCEPT !.b = RecordFailed(@, team, norm.error)], i + 1)
            ELSE IF prep.error # ""
            THEN BulkLoop([st EXCEPT !.b = RecordFailed(@, team, prep.error),
                                     !.tm = prep.tm], i + 1)
            ELSE [st EXCEPT !.b = [@ EXCEPT !.i = i, !.pc = "post", !.payload = prep.payload],
                            !.tm = prep.tm,
                            !.log = Append(@, [kind |-> "send", i |-> i,
                                               to |-> prep.payload[1].to])]

\* The handler, TEMPLATE_META, the log and the clock after a step of the loop
BulkStep(st) ==
    /\ bulk' = st.b
    /\ templateMeta' = st.tm
    /\ providerLog' = st.log
    /\ now' = IF st.b.pc = "history" THEN now + 1 ELSE now

BulkState(b) == [b |-> b, tm |-> templateMeta, log |-> providerLog]

BulkStart(body) ==
    /\ bulk.pc = "idle"
    /\ LET b0 == [BulkIdle EXCEPT !.pc = "run",
                     !.teams = IF body.teams.t = "array" THEN body.teams.items ELSE <<>>,
                     !.templateName = body.templateName, !.tournament = body.tournament,
                     !.date = body.date, !.templateParams = body.templateParams]
           status == Validate(body)
       IN IF status # 0
          THEN BulkStep(BulkState([b0 EXCEPT !.pc = "done", !.status = status,
                                             !.error = IF status = 400 THEN "validation"
                                                       ELSE "Failed to send bulk messages"]))
          ELSE BulkStep(BulkLoop(BulkState(b0), 1))
    /\ UNCHANGED <<messages, chatDocs, teamRegistrations, h, nextId, failures, appended,
                   lastOp, preloaded, bulkMessageHistory,
                   call, senderLog>>

\* axios.post returns or throws; after a success the pause is started unless
\* the recipient is the last one
BulkPost(o) ==
    /\ bulk.pc = "post"
    /\ LET team == bulk.teams[bulk.i] IN
       IF o.ok
       THEN LET b1 == RecordSuccess(bulk, team) IN
            IF bulk.i < Len(bulk.teams)
            THEN BulkStep([BulkState([b1 EXCEPT !.pc = "pause"]) EXCEPT
                              !.log = Append(@, [kind |-> "pause", i |-> bulk.i])])
            ELSE BulkStep(BulkLoop(BulkState(b1), bulk.i + 1))
       ELSE BulkStep(BulkLoop(BulkState(RecordFailed(bulk, team, SendError(o))), bulk.i + 1))
    /\ UNCHANGED <<messages, chatDocs, teamRegistrations, h, nextId, failures, appended,
                   lastOp, preloaded, bulkMessageHistory,
                   call, senderLog>>

\* The 100 ms timer fires
BulkPause ==
    /\ bulk.pc = "pause"
    /\ BulkStep(BulkLoop(BulkState(bulk), bulk.i + 1))
    /\ UNCHANGED <<messages, chatDocs, teamRegistrations, h, nextId, failures, appended,
                   lastOp, preloaded, bulkMessageHistory,
                   call, senderLog>>

\* bulkMessageHistory.add(historyRecord) and the response
BulkHistoryAdd(saved) ==
    /\ bulk.pc = "history"
    /\ IF saved
       THEN /\ bulkMessageHistory' = Append(bulkMessageHistory, bulk.historyRecord[1])
            /\ bulk' = [bulk EXCEPT !.pc = "done", !.status = 200, !.historyId = "id",
                                    !.historyAdds = @ + 1]
       ELSE /\ bulkMessageHistory' = bulkMessageHistory
            /\ bulk' = [bulk EXCEPT !.pc = "done", !.status = 200, !.warning = TRUE,
                                    !.historyAdds = @ + 1]
    /\ UNCHANGED <<messages, chatDocs, teamRegistrations, h, now, nextId, failures, appended,
                   lastOp, preloaded, templateMeta, providerLog,
                   call, senderLog>>

----------------------------------------------------------------------------
(* One bulk dispatch: every shape of the request body *)

Ten == <<"9", "8", "7", "6", "5", "4", "3", "2", "1", "0">>
Twelve == <<"9", "1">> \o Ten
Short == <<"1", "2", "3", "4", "5">>
Alpha10 == <<"9", "8", "7", "6", "5", "a", "b", "c", "d", "e">>
Other12 == <<"1", "2">> \o Ten
Padded == <<" ">> \o Ten \o <<" ">>
Blank == <<" ", " ">>

\* Phone values that pass the validation of the body
Phones == {Str(Ten), Str(Twelve), Str(Short), Str(Alpha10), Str(Other12), Str(Padded),
           Str(Blank)}

TeamId == Str(<<"T">>)
TeamName == Str(<<"N">>)

ValidTeams == {Team(TeamId, ph, TeamName) : ph \in Phones}

InvalidTeams ==
    {NullItem,
     Team(Undefined, Str(Ten), TeamName),
     Team(TeamId, Undefined, TeamName),
     Team(TeamId, Str(<<>>), TeamName),
     Team(TeamId, Str(Ten), Undefined)}

Custom == <<"c", "u", "s", "t", "o", "m">>
Cup == <<"c", "u", "p">>

Array(items) == [t |-> "array", items |-> items]
NotArray(v) == [t |-> v.t, items |-> <<>>]

BulkBody(teams, templateName, tournament, date, templateParams) ==
    [teams |-> teams, templateName |-> templateName, tournament |-> tournament,
     date |-> date, templateParams |-> templateParams]

\* Bodies that pass the validation, and bodies with one or more violations
BulkBodies ==
    {BulkBody(Array(items), Str(name), Str(Cup), date, NoParams) :
        items \in SeqsUpTo(ValidTeams, MaxTeams) \ {<<>>},
        name \in {Verified, Custom}, date \in {Undefined, Str(<<"d">>)}}
    \cup {BulkBody(teams, name, Str(Cup), Undefined, NoParams) :
        teams \in {NotArray(Undefined), NotArray(Str(Ten)), Array(<<>>)},
        name \in {Undefined, Str(Verified)}}
    \cup {BulkBody(Array(items), name, tournament, Undefined, NoParams) :
        items \in SeqsUpTo(ValidTeams \cup InvalidTeams, MaxTeams - 1) \ {<<>>},
        name \in {Undefined, Str(Blank), Str(Verified)},
        tournament \in {Undefined, Str(Blank), Str(Cup)}}
    \cup {BulkBody(Array(<<Team(TeamId, Str(Ten), TeamName)>>), name, tournament,
                    Undefined, NoParams) :
        name \in {Num, Str(Verified)}, tournament \in {Num, Str(Cup)}}

\* The outcomes of the provider call in a bulk dispatch
BulkOutcomes == {Delivered, Rejected, TimedOut}

NextBulk ==
    \/ \E body \in BulkBodies : BulkStart(body)
    \/ \E o \in BulkOutcomes : BulkPost(o)
    \/ BulkPause
    \/ \E saved \in BOOLEAN : BulkHistoryAdd(saved)

\* The server starts with an empty store
InitBulk == Init /\ preloaded = 0 /\ teamRegistrations = <<>>

SpecBulk == InitBulk /\ [][NextBulk]_vars

----------------------------------------------------------------------------
(* sendTemplateMessageWithParams called on its own: every shape of its     *)
(* arguments, every way the provider call ends.  The descriptor table is   *)
(* the one the server ships, or that table with the example descriptor of  *)
(* the source (tournament_reminder: two body parameters, an image header)  *)
(* enabled.                                                                *)

TournamentReminder ==
    <<"t", "o", "u", "r", "n", "a", "m", "e", "n", "t", "_", "r", "e", "m", "i", "n", "d", "e", "r">>

WithReminder ==
    [name \in DOMAIN TEMPLATE_META \cup {TournamentReminder} |->
        IF name = TournamentReminder THEN Descriptor("en_US", 2, "image")
        ELSE TEMPLATE_META[name]]

MetaTables == {TEMPLATE_META, WithReminder}

SenderNames ==
    {Str(Verified), Str(Custom), Str(Constructor), Str(TournamentReminder), Str(Blank),
     Undefined}

SenderParams ==
    {[t |-> "object", tournament |-> tournament, date |-> date, body |-> body,
      hasBody |-> body # <<>>, imageUrl |-> imageUrl, videoUrl |-> Undefined] :
        tournament \in {Undefined, Str(Cup)}, date \in {Undefined, Str(<<"d">>)},
        body \in {<<>>, <<"x">>, <<"x", "y">>}, imageUrl \in {Undefined, Str(<<"u">>)}}

Outcomes == {Delivered, Rejected, BadStatus, TimedOut, Unreachable, NotSent}

\* The call up to axios.post: the validation, the descriptor, the payload
SenderCall(to, templateName, params) ==
    /\ call.pc = "idle"
    /\ Len(senderLog) < MaxCalls
    /\ LET prep == PrepareSend(to, templateName, params, templateMeta)
       IN /\ call' = [CallIdle EXCEPT !.pc = IF prep.error = "" THEN "post" ELSE "threw",
                                      !.to = to, !.templateName = templateName,
                                      !.params = <<params>>, !.tmBefore = <<templateMeta>>,
                                      !.payload = prep.payload, !.error = prep.error]
          /\ templateMeta' = prep.tm
    /\ UNCHANGED <<messages, chatDocs, teamRegistrations, h, now, nextId, failures, appended,
                   lastOp, preloaded, bulk, bulkMessageHistory, providerLog, senderLog>>

\* axios.post returns, or throws and the catch throws the classified error
SenderPost(o) ==
    /\ call.pc = "post"
    /\ call' = [call EXCEPT !.pc = IF o.ok THEN "returned" ELSE "threw",
                            !.posted = TRUE, !.outcome = <<o>>,
                            !.error = IF o.ok THEN "" ELSE SendError(o)]
    /\ UNCHANGED <<messages, chatDocs, teamRegistrations, h, now, nextId, failures, appended,
                   lastOp, preloaded, bulk, templateMeta, bulkMessageHistory, providerLog,
                   senderLog>>

\* The caller gets the result or the error
SenderReturn ==
    /\ call.pc \in {"returned", "threw"}
    /\ senderLog' = Append(senderLog, [posted |-> call.posted, outcome |-> call.outcome,
                                       error |-> call.error])
    /\ call' = CallIdle
    /\ UNCHANGED <<messages, chatDocs, teamRegistrations, h, now, nextId, failures, appended,
                   lastOp, preloaded, bulk, templateMeta, bulkMessageHistory, providerLog>>

NextSender ==
    \/ \E to \in {Twelve, <<>>}, templateName \in SenderNames, params \in SenderParams :
           SenderCall(to, templateName, params)
    \/ \E o \in Outcomes : SenderPost(o)
    \/ SenderReturn

InitSender ==
    /\ InitStore /\ preloaded = 0 /\ teamRegistrations = <<>>
    /\ templateMeta \in MetaTables

SpecSender == InitSender /\ [][NextSender]_vars

----------------------------------------------------------------------------
(* GET /webhook: the subscription handshake.  A query parameter that is    *)
(* missing or empty is "".  The handler is synchronous; when neither       *)
(* branch is taken it returns without sending a response.                  *)

VERIFY_TOKEN == "my_verify_token"

VerifyWebhook(p, mode, token, challenge) ==
    /\ MayStart(p)
    /\ LET hr0 == [Idle EXCEPT !.kind = "verify", !.mode = mode, !.token = token,
                               !.challenge = challenge]
           hr1 == IF mode # "" /\ token # ""
                  THEN IF mode = "subscribe" /\ token = VERIFY_TOKEN
                       THEN Respond([hr0 EXCEPT !.result = <<challenge>>], 200)
                       ELSE Respond(hr0, 403)
                  ELSE [hr0 EXCEPT !.pc = "noResponse"]
       IN h' = Started(p, hr1)
    /\ UNCHANGED <<messages, chatDocs, teamRegistrations, now, nextId, failures,
                   appended, lastOp, preloaded>>
    /\ UNCHANGED bulkVars

NextVerify ==
    \E p \in Procs :
        \E mode \in {"", "subscribe", "unsubscribe"},
           token \in {"", VERIFY_TOKEN, "wrong"},
           challenge \in {"", "c1"} :
            VerifyWebhook(p, mode, token, challenge)

SpecVerify == Init /\ [][NextVerify]_vars

----------------------------------------------------------------------------
(* The admin sends: every shape of the request body *)

NextAdmin ==
    \E p \in Procs :
        \/ \E kind \in {"chatSend", "supportSend"}, phoneNumber \in {NoPhone, PhoneA},
              message \in {"", "hi"} : AdminSendStart(p, kind, phoneNumber, message)
        \/ AdminSendPost(p)
        \/ StoreAdd(p)
        \/ StoreSet(p)
        \/ RetCount(p)
        \/ RetSelect(p)
        \/ RetCommit(p)

SpecAdmin == Init /\ [][NextAdmin]_vars

----------------------------------------------------------------------------
(* POST /api/send-whatsapp (controllers/whatsappController.js): the        *)
(* validation and the formatting of the phone are synchronous, the post of *)
(* the game_greeting template is the one await.  A phone of the body that  *)
(* is not a string has no replace method: the call throws a TypeError,     *)
(* which the catch of the handler answers like any other error.            *)

\* A number of the JSON body, by its decimal digits
NumOf(digits) == [t |-> "number", s |-> digits]

IsDigit(c) == c \in Digits
IsNotSpace(c) == c # " "

\* phone.replace(/[^\d]/g, "")
DigitsOnly(chars) == SelectSeq(chars, IsDigit)

\* phone.replace(/\s+/g, "")
NoSpaces(chars) == SelectSeq(chars, IsNotSpace)

\* formattedUserPhone: the digits, with 91 before a 10-digit number and
\* without a leading "+"
FormatPhone(chars) ==
    LET digits == DigitsOnly(NoSpaces(chars))
        withCode == IF Len(digits) = 10 THEN <<"9", "1">> \o digits ELSE digits
    IN IF Len(withCode) > 0 /\ withCode[1] = "+" THEN Tail(withCode) ELSE withCode

\* How the post of the template ends: ok, or an error with a response that
\* carries the provider's error code, or an error without response
GreetingOutcome(ok, response, code) == [ok |-> ok, response |-> response, code |-> code]

GreetingOutcomes ==
    {GreetingOutcome(TRUE, TRUE, 0),
     GreetingOutcome(FALSE, TRUE, PARAM_INVALID),
     GreetingOutcome(FALSE, TRUE, PARAM_INVALID + 1),
     GreetingOutcome(FALSE, FALSE, 0)}

\* The status the catch answers: error.response?.data?.error?.code === 131009
CatchStatus(o) == IF o.response /\ o.code = PARAM_INVALID THEN 400 ELSE 500

\* The handler up to axios.post
GreetingStart(p, phone) ==
    /\ MayStart(p)
    /\ LET hr0 == [Idle EXCEPT !.kind = "greeting", !.req = phone]
           hr1 == IF Falsy(phone) THEN Respond(hr0, 400)
                  ELSE IF phone.t # "string"
                  THEN Respond([hr0 EXCEPT !.failedAt = "type"], 500)
                  ELSE IF Len(DigitsOnly(phone.s)) < 10 \/ Len(DigitsOnly(phone.s)) > 12
                  THEN Respond(hr0, 400)
                  ELSE [hr0 EXCEPT !.pc = "greetPost", !.to = FormatPhone(phone.s)]
       IN h' = Started(p, hr1)
    /\ UNCHANGED <<messages, chatDocs, teamRegistrations, now, nextId, failures,
                   appended, lastOp, preloaded>>
    /\ UNCHANGED bulkVars

\* axios.post returns or throws
GreetingPost(p, o) ==
    /\ h[p].pc = "greetPost"
    /\ h' = [h EXCEPT ![p] = Respond([@ EXCEPT !.posted = TRUE, !.outcome = <<o>>],
                                     IF o.ok THEN 200 ELSE CatchStatus(o))]
    /\ UNCHANGED <<messages, chatDocs, teamRegistrations, now, nextId, failures,
                   appended, lastOp, preloaded>>
    /\ UNCHANGED bulkVars

Eleven == <<"0">> \o Ten
Thirteen == <<"0">> \o Twelve
Written == <<"+", "9", "1", " ">> \o SubSeq(Ten, 1, 5) \o <<"-">> \o SubSeq(Ten, 6, 10)

GreetingPhones ==
    {Undefined, Str(<<>>), Str(Blank), Str(Short), Str(Alpha10), Str(Ten), Str(Eleven),
     Str(Twelve), Str(Thirteen), Str(Padded), Str(Written), NumOf(Short), NumOf(Ten)}

NextGreeting ==
    \E p \in Procs :
        \/ \E phone \in GreetingPhones : GreetingStart(p, phone)
        \/ \E o \in GreetingOutcomes : GreetingPost(p, o)

SpecGreeting == Init /\ [][NextGreeting]_vars

----------------------------------------------------------------------------
(* Properties of the chat store under concurrent requests *)

WriteKinds == {"webhook", "chatSend", "supportSend"}
HistoryKinds == {"chatHistory", "supportHistory"}

\* No handler was started after handler p
Latest(p) == IF p = MaxEvents THEN TRUE ELSE h[p + 1].pc = "idle"

\* A write handler has answered 200 after appending its record
WriteCompleted(p) ==
    /\ h[p].pc = "done"
    /\ h[p].kind \in WriteKinds
    /\ h[p].status = 200
    /\ h[p].wrote # {}

\* C1 (as stated): whenever a write handler has completed, its partition
\* holds at most MAX_CHAT_MESSAGES messages.
C1_SizeAfterWrite ==
    \A p \in Procs : WriteCompleted(p) => h[p].sizeAtDone <= MAX_CHAT_MESSAGES

\* C1 (amended): whenever a write handler has completed whose retention run
\* did not fail and during whose run no other write handler for the same
\* phone key was in flight, its partition holds at most MAX_CHAT_MESSAGES
\* messages.
C1_SizeAfterSoloWrite ==
    \A p \in Procs :
        (WriteCompleted(p) /\ ~h[p].retFailed /\ ~h[p].overlap)
            => h[p].sizeAtDone <= MAX_CHAT_MESSAGES

\* C1 (witness): such a handler has trimmed its partition down to the limit
C1_Witness ==
    \E p \in Procs :
        /\ WriteCompleted(p) /\ ~h[p].retFailed /\ ~h[p].overlap
        /\ h[p].nDeleted > 0
        /\ h[p].sizeAtDone = MAX_CHAT_MESSAGES

IsAscending(res) == \A k \in 1..(Len(res) - 1) : res[k].ts <= res[k + 1].ts

Range(res) == {res[k] : k \in 1..Len(res)}

\* C2: a history read made when no write handler is in flight returns at
\* most 10 records, in ascending timestamp order, and they are exactly the
\* min(N, 10) most recent of all N records ever appended to the partition
\* (stated for the runs that start with at most 10 records per partition and
\* in which no store or provider call fails).
C2_QuiescentRead ==
    (failures = 0 /\ preloaded <= MAX_CHAT_MESSAGES) =>
        \A p \in Procs :
            (/\ h[p].pc = "done" /\ h[p].kind \in HistoryKinds /\ h[p].status = 200
             /\ ~h[p].overlap /\ Latest(p))
                => /\ Len(h[p].result) <= HistoryLimit
                   /\ IsAscending(h[p].result)
                   /\ Len(h[p].result) = Min(Cardinality(appended[Part(h[p])]), HistoryLimit)
                   /\ Range(h[p].result) \in NewestSets(appended[Part(h[p])], HistoryLimit)

\* C3: under any interleaving of write handlers, retention never deletes
\* more records than the excess over 10: a partition never holds fewer than
\* min(10, number of records appended) records (stated for the runs that
\* start with at most 10 records per partition and in which no store or
\* provider call fails).
C3_NoOverDeletion ==
    (failures = 0 /\ preloaded <= MAX_CHAT_MESSAGES) =>
        \A part \in Partitions :
            Cardinality(messages[part])
                >= Min(MAX_CHAT_MESSAGES, Cardinality(appended[part]))

\* C4 (as stated): a retention run that follows another retention run on the
\* same partition, with no append in between and no other handler for the
\* key in flight, deletes nothing.
C4_SecondRunDeletesNothing ==
    \A p \in Procs :
        (h[p].retRan /\ h[p].prev \in {"trimmed", "failed"}) => h[p].nDeleted = 0

\* C4 (amended): a retention run that follows, with no append in between, a
\* retention run that completed without a store failure deletes nothing
\* (excessCount is 0); and a retention run that counts at most
\* MAX_CHAT_MESSAGES records deletes nothing.
C4_Idempotent ==
    \A p \in Procs :
        /\ (h[p].retRan /\ h[p].prev = "trimmed")
               => (h[p].nDeleted = 0 /\ h[p].excess = 0 /\ h[p].pc \notin {"select", "commit"})
        /\ (h[p].retRan /\ h[p].total <= MAX_CHAT_MESSAGES)
               => (h[p].nDeleted = 0 /\ h[p].pc \notin {"select", "commit"})

\* C4 (witness): a first run has deleted records, the run after it found the
\* partition at the limit and deleted nothing
C4_Witness ==
    \E p, q \in Procs :
        /\ h[q].pc = "done" /\ h[q].retRan /\ h[q].nDeleted > 0
        /\ h[p].pc = "done" /\ h[p].retRan /\ h[p].prev = "trimmed"
        /\ h[p].total = MAX_CHAT_MESSAGES /\ h[p].nDeleted = 0

----------------------------------------------------------------------------
(* Properties of the webhook message routing *)

\* The last 10 characters of a sender identifier of at least 10 characters
IsLastTen(key, from) ==
    /\ Len(key) = 10
    /\ \E k \in 0..Len(from) : k + 10 = Len(from) /\ \A j \in 1..10 : key[j] = from[k + j]

\* The chat records handler p wrote for message i of its delivery
WrittenFor(p, i) == {w \in h[p].wrote : w.i = i}

TextIndexes(p) == {i \in 1..Len(h[p].msgs) : HasText(h[p].msgs[i])}

\* A record written by the webhook is one ChatMessage from "user" with the
\* text of the message, in the partition of the sender's last 10
\* characters: whatsappChats when a Registration matched at the lookup,
\* supportChats otherwise, and in no other partition
RoutedRight(p, w) ==
    /\ w.rec.from = "user"
    /\ w.rec.text = h[p].msgs[w.i].text
    /\ HasText(h[p].msgs[w.i])
    /\ IsLastTen(w.key, h[p].msgs[w.i].from)
    /\ w.cls = (IF w.registered THEN "whatsappChats" ELSE "supportChats")
    /\ \A part \in Partitions :
          (\E r \in appended[part] : r.id = w.rec.id /\ r.id > preloaded)
              <=> part = <<w.cls, w.key>>

C6_ImageNeverWritten ==
    \A p \in Procs :
        h[p].kind = "webhook" =>
            \A w \in h[p].wrote : ~HasImage(h[p].msgs[w.i])

----------------------------------------------------------------------------
(* Properties of the bulk dispatch *)

\* A recipient entry without an identifier, a phone number or a display name
Lacks(item) ==
    IF item.t = "null" THEN TRUE
    ELSE Falsy(item.teamId) \/ Falsy(item.phoneNumber) \/ Falsy(item.teamName)

\* The request of the dispatch violates a rule of the validation
Malformed ==
    \/ bulk.teams = <<>>
    \/ \E k \in 1..Len(bulk.teams) : Lacks(bulk.teams[k])
    \/ IsBlank(bulk.templateName) = "yes"
    \/ IsBlank(bulk.tournament) = "yes"

\* C7: a bulk dispatch whose recipient list is missing, not a list or empty,
\* or with a recipient that lacks an identifier, phone number or display
\* name, or with an empty template name or tournament, is answered 400, and
\* no message is sent to the provider and no history record is persisted.
C7_FailFast ==
    (bulk.pc # "idle" /\ Malformed) =>
        /\ bulk.pc = "done" /\ bulk.status = 400
        /\ providerLog = <<>>
        /\ bulkMessageHistory = <<>>

\* The phone value without the whitespace around it
Bare(v) == IF v.t = "string" THEN Trim(v.s) ELSE <<>>

IsTenDigits(v) == Len(Bare(v)) = 10 /\ IsDigits(Bare(v))

IsTwelveDigits91(v) ==
    Len(Bare(v)) = 12 /\ IsDigits(Bare(v)) /\ SubSeq(Bare(v), 1, 2) = <<"9", "1">>

\* The numbers the sends for recipient k were posted to
SentTo(k) ==
    {providerLog[j].to : j \in {x \in 1..Len(providerLog) :
                                   providerLog[x].kind = "send" /\ providerLog[x].i = k}}

InvalidPhoneErrors == {"Phone number is empty", "Invalid phone number format"}

\* C8: a recipient phone of exactly 10 digits is sent with 91 prefixed; one
\* of 12 digits beginning with 91 is sent unchanged; every other phone value
\* makes the recipient "failed" with an invalid-phone detail, and no
\* provider send is attempted for it (whitespace around the value is not
\* counted as part of it).
C8_Normalization ==
    /\ \A k \in 1..Len(bulk.details) :
          LET v == bulk.teams[k].phoneNumber IN
          IF IsTenDigits(v) THEN SentTo(k) = {<<"9", "1">> \o Bare(v)}
          ELSE IF IsTwelveDigits91(v) THEN SentTo(k) = {Bare(v)}
          ELSE /\ bulk.details[k].status = "failed"
               /\ bulk.details[k].error \in InvalidPhoneErrors
               /\ SentTo(k) = {}
    /\ \A j \in 1..Len(providerLog) :
          providerLog[j].kind = "send" =>
              LET v == bulk.teams[providerLog[j].i].phoneNumber
              IN IsTenDigits(v) \/ IsTwelveDigits91(v)

\* The dispatch passed the validation
PassedValidation == bulk.pc \in {"post", "pause", "history"} \/ (bulk.pc = "done" /\ bulk.status = 200)

\* The recipients have all been processed
LoopDone == bulk.pc = "history" \/ (bulk.pc = "done" /\ bulk.status = 200)

\* C9: in every bulk dispatch that passes validation, whatever subset of
\* recipients fails, details has one entry per processed recipient in the
\* input order, each "success" or "failed"; once the loop has ended every
\* recipient has an entry, successful + failed is the number of recipients
\* and successful is the number of "success" entries.
C9_DetailsComplete ==
    PassedValidation =>
        /\ Len(bulk.details) <= Len(bulk.teams)
        /\ \A k \in 1..Len(bulk.details) :
              /\ bulk.details[k].teamId = bulk.teams[k].teamId
              /\ bulk.details[k].teamName = bulk.teams[k].teamName
              /\ bulk.details[k].phoneNumber = bulk.teams[k].phoneNumber
              /\ bulk.details[k].status \in {"success", "failed"}
        /\ bulk.successful + bulk.failed = Len(bulk.details)
        /\ bulk.successful =
              Cardinality({k \in 1..Len(bulk.details) : bulk.details[k].status = "success"})
        /\ LoopDone => Len(bulk.details) = Len(bulk.teams)
        /\ LoopDone => bulk.successful + bulk.failed = Len(bulk.teams)

\* C9 (witness): three recipients, the second with an invalid phone number:
\* successful = 2, failed = 1, the second entry "failed"
C9_Witness ==
    /\ bulk.pc = "done" /\ bulk.status = 200
    /\ Len(bulk.teams) = 3 /\ Len(bulk.details) = 3
    /\ bulk.successful = 2 /\ bulk.failed = 1
    /\ bulk.details[1].status = "success"
    /\ bulk.details[2].status = "failed"
    /\ bulk.details[2].error = "Invalid phone number format"
    /\ bulk.details[3].status = "success"

\* C10: a pause occurs between every two consecutive provider sends of a
\* bulk dispatch, whether the earlier send succeeded or failed, and no pause
\* occurs after the send to the last recipient.
C10_Pacing ==
    /\ \A j1, j2 \in 1..Len(providerLog) :
          (/\ j1 < j2
           /\ providerLog[j1].kind = "send"
           /\ providerLog[j2].kind = "send")
              => \E j \in (j1 + 1)..(j2 - 1) : providerLog[j].kind = "pause"
    /\ \A j \in 1..Len(providerLog) :
          providerLog[j].kind = "pause" => providerLog[j].i < Len(bulk.teams)

\* C11: a bulk dispatch that passes validation attempts to persist exactly
\* one history record, after all recipients were processed, holding the full
\* per-recipient detail list; when the add fails the response is still 200
\* with the same counts and details, a null history id and a warning.
C11_HistoryOnce ==
    /\ bulk.pc \in {"post", "pause", "history"} =>
          (bulk.historyAdds = 0 /\ bulkMessageHistory = <<>>)
    /\ (bulk.pc = "done" /\ bulk.status # 200) =>
          (bulk.historyAdds = 0 /\ bulkMessageHistory = <<>>)
    /\ bulk.pc = "history" =>
          /\ Len(bulk.details) = Len(bulk.teams)
          /\ bulk.historyRecord[1].results = bulk.details
    /\ (bulk.pc = "done" /\ bulk.status = 200) =>
          /\ bulk.historyAdds = 1
          /\ bulk.historyRecord[1].results = bulk.details
          /\ Len(bulk.details) = Len(bulk.teams)
          /\ bulk.historyRecord[1].successfulCount = bulk.successful
          /\ bulk.historyRecord[1].failedCount = bulk.failed
          /\ bulk.historyRecord[1].totalTeams = Len(bulk.teams)
          /\ IF bulk.warning
             THEN bulk.historyId = "" /\ bulkMessageHistory = <<>>
             ELSE bulk.historyId # "" /\ bulkMessageHistory = <<bulk.historyRecord[1]>>

\* C11 (witness): the add of the history record failed after a dispatch with
\* a success and a failure; the response is 200 with the warning
C11_Witness ==
    /\ bulk.pc = "done" /\ bulk.status = 200
    /\ bulk.warning /\ bulk.historyId = ""
    /\ bulk.successful >= 1 /\ bulk.failed >= 1
    /\ bulkMessageHistory = <<>>

----------------------------------------------------------------------------
(* Properties of the template sender *)

\* The call in progress got past the checks of the number and the name
CallChecked ==
    /\ call.pc # "idle"
    /\ call.to # <<>>
    /\ call.templateName.t = "string" /\ Trim(call.templateName.s) # <<>>

\* The table had an entry of its own for the name when the call was made
HadDescriptor == call.templateName.s \in DOMAIN call.tmBefore[1]

\* The number of body parameters the arguments of the call supply
Assembled ==
    (IF Truthy(call.params[1].tournament) THEN 1 ELSE 0)
    + (IF Truthy(call.params[1].date) THEN 1 ELSE 0)
    + (IF call.params[1].hasBody THEN Len(call.params[1].body) ELSE 0)

\* C12: when the descriptor expects N > 0 body parameters and the number of
\* assembled body parameters differs from N, the send fails with the
\* validation error and no request is made to the provider.
C12_MismatchNotSent ==
    (/\ CallChecked /\ HadDescriptor
     /\ call.tmBefore[1][call.templateName.s].bodyParams > 0
     /\ Assembled # call.tmBefore[1][call.templateName.s].bodyParams)
        => /\ call.pc = "threw"
           /\ call.error = "body params mismatch"
           /\ ~call.posted
           /\ call.payload = <<>>

\* C12 (witness): the descriptor expects 2 body parameters, 1 was assembled,
\* and the call threw before the provider was called
C12_Witness ==
    /\ CallChecked /\ HadDescriptor
    /\ call.tmBefore[1][call.templateName.s].bodyParams = 2
    /\ Assembled = 1
    /\ call.pc = "threw" /\ ~call.posted

\* C13: a send with a template name that has no descriptor never fails for
\* that reason: the default descriptor (no header, zero body parameters,
\* language en_US) is synthesized, and the payload carries no components
\* whatever parameters the caller supplies.
C13_DefaultDescriptor ==
    (CallChecked /\ ~HadDescriptor) =>
        /\ call.templateName.s \in DOMAIN templateMeta
        /\ MetaOf(templateMeta, call.templateName.s) = Descriptor("en_US", 0, "null")
        /\ call.pc = "threw" => call.posted
        /\ call.payload # <<>>
        /\ call.payload[1].components = <<>>
        /\ call.payload[1].language = "en_US"

\* The sends that ended without a response of the provider
Unanswered ==
    {k \in 1..Len(senderLog) :
        /\ senderLog[k].posted
        /\ ~senderLog[k].outcome[1].ok
        /\ ~senderLog[k].outcome[1].response}

IsTimeout(o) == ~o.response /\ o.code = "ECONNABORTED"

\* C14: a request timeout (code ECONNABORTED, no response) gives an error
\* that is distinct from the error of every other transport failure without
\* a response.
C14_TimeoutDistinct ==
    \A j, k \in Unanswered :
        (IsTimeout(senderLog[j].outcome[1]) /\ ~IsTimeout(senderLog[k].outcome[1]))
            => senderLog[j].error # senderLog[k].error

----------------------------------------------------------------------------
(* Properties of the failures inside a webhook delivery *)

\* The messages of the delivery that take the text or the image branch
WorkIndexes(p) ==
    {i \in 1..Len(h[p].msgs) : HasText(h[p].msgs[i]) \/ HasImage(h[p].msgs[i])}

\* C15: a failure at any media step of an image message (media URL,
\* download, upload, Registration query or update) aborts only that message:
\* the loop goes on behind it, and a delivery whose only failures are media
\* failures processes every message and is answered 200.
C15_MediaFailureContained ==
    \A p \in Procs :
        h[p].kind = "webhook" =>
            /\ \A i \in h[p].mediaFailed : HasImage(h[p].msgs[i]) /\ h[p].i > i
            /\ (h[p].pc = "done" /\ h[p].status = 500)
                   => failures > Cardinality(h[p].mediaFailed)
            /\ (/\ h[p].pc = "done"
                /\ h[p].mediaFailed # {}
                /\ failures = Cardinality(h[p].mediaFailed))
                   => /\ h[p].status = 200
                      /\ h[p].reached = WorkIndexes(p)
                      /\ \A i \in TextIndexes(p) : Cardinality(WrittenFor(p, i)) = 1

\* C15 (witness): the image of the first message failed at a media step, the
\* text message behind it was appended and the delivery was answered 200
C15_Witness ==
    \E p \in Procs :
        /\ h[p].kind = "webhook" /\ h[p].pc = "done" /\ h[p].status = 200
        /\ h[p].mediaFailed = {1}
        /\ Len(h[p].msgs) = 2
        /\ Cardinality(WrittenFor(p, 2)) = 1

\* C16: a document-store failure while one inbound message is handled
\* (registration lookup, append, lastUpdated upsert) is caught for that
\* message: the remaining messages of the delivery are still processed.
C16_StoreFailureContained ==
    \A p \in Procs :
        (h[p].kind = "webhook" /\ h[p].pc = "done" /\ h[p].status # 404)
            => h[p].reached = WorkIndexes(p)

----------------------------------------------------------------------------
(* Properties of the subscription handshake *)

\* C17: every GET /webhook request receives exactly one response: 200
\* echoing hub.challenge when hub.mode is "subscribe" and hub.verify_token
\* is the verify token, 403 in every other case (a missing mode or token
\* included).
C17_HandshakeAnswered ==
    \A p \in Procs :
        h[p].kind = "verify" =>
            /\ h[p].pc = "done"
            /\ IF h[p].mode = "subscribe" /\ h[p].token = "my_verify_token"
               THEN h[p].status = 200 /\ h[p].result = <<h[p].challenge>>
               ELSE h[p].status = 403

----------------------------------------------------------------------------
(* Properties of the admin sends *)

\* C18: POST /api/chat/send and POST /api/support/send answer 400 when
\* phoneNumber or message is missing, without calling the provider or
\* writing to the store; 500 when the provider send or a store write (the
\* append or the lastUpdated upsert) fails; 200 when the provider send and
\* the store writes succeed.
C18_AdminSendStatus ==
    \A p \in Procs :
        (h[p].kind \in {"chatSend", "supportSend"} /\ h[p].pc = "done") =>
            IF h[p].phone = NoPhone \/ h[p].text = ""
            THEN /\ h[p].status = 400
                 /\ ~h[p].posted /\ h[p].wrote = {} /\ ~h[p].docSet
            ELSE IF h[p].failedAt \in {"send", "add", "set"}
            THEN /\ h[p].status = 500
                 /\ h[p].posted
                 /\ h[p].failedAt = "send" => h[p].wrote = {}
                 /\ ~h[p].docSet
            ELSE /\ h[p].status = 200
                 /\ h[p].posted /\ h[p].docSet
                 /\ Cardinality(h[p].wrote) = 1
                 /\ \A w \in h[p].wrote :
                       /\ w.cls = SendClass(h[p].kind)
                       /\ w.rec.from = "admin" /\ w.rec.text = h[p].text

\* C18 (witness): one request has gone through and been answered 200, and
\* another, whose provider send succeeded and whose lastUpdated upsert
\* failed, has been answered 500
C18_Witness ==
    \E q, r \in Procs :
        /\ h[q].kind \in {"chatSend", "supportSend"} /\ h[q].pc = "done"
        /\ h[q].status = 200 /\ h[q].wrote # {} /\ h[q].docSet
        /\ h[r].kind \in {"chatSend", "supportSend"} /\ h[r].pc = "done"
        /\ h[r].status = 500 /\ h[r].posted /\ h[r].failedAt = "set"

----------------------------------------------------------------------------
(* Properties of the history endpoints *)

\* A history handler has answered 200
HistoryAnswered(p) ==
    h[p].kind \in HistoryKinds /\ h[p].pc = "done" /\ h[p].status = 200

\* C19: GET /api/chat/history/:phoneNumber and GET /api/support/history/
\* :phoneNumber return the at most 10 records of the partition with the
\* greatest timestamps, in ascending timestamp order (seen is what the
\* partition held when the handler read it), and answer 200 with an empty
\* list when the partition holds nothing (stated for the reads that run
\* while no write handler for the key is in flight).
C19_HistoryNewest ==
    \A p \in Procs :
        (HistoryAnswered(p) /\ ~h[p].overlap) =>
            /\ Len(h[p].result) <= HistoryLimit
            /\ IsAscending(h[p].result)
            /\ Len(h[p].result) = Min(Cardinality(h[p].seen), HistoryLimit)
            /\ Range(h[p].result) \in NewestSets(h[p].seen, HistoryLimit)

----------------------------------------------------------------------------
(* Properties of a failing retention run *)

\* A write handler has answered, a step of its retention run has failed,
\* and none of its other store or provider calls has
RetentionOnlyFailure(p) ==
    /\ h[p].pc = "done"
    /\ h[p].kind \in WriteKinds
    /\ h[p].retFailed
    /\ h[p].failedAt = ""

\* C20: a failure inside the retention policy (the count read, the query for
\* the oldest records or the batch delete) never propagates to its caller:
\* the write handler that triggered it still answers 200, and the record it
\* appended is in its partition when it answers.
C20_RetentionFailureContained ==
    \A p \in Procs :
        RetentionOnlyFailure(p) =>
            /\ h[p].status = 200
            /\ h[p].wrote # {}
            /\ h[p].kept

\* C20 (witness): a handler's retention run has failed on a partition over
\* the limit, the handler has answered 200 and the partition is still over
\* the limit with the handler's record in it
C20_Witness ==
    \E p \in Procs :
        /\ RetentionOnlyFailure(p)
        /\ h[p].status = 200 /\ h[p].kept
        /\ h[p].sizeAtDone > MAX_CHAT_MESSAGES

----------------------------------------------------------------------------
(* Properties of the retention run after earlier runs have failed *)

\* A write handler has answered 200; its retention run did not fail, no
\* other write handler for the key was in flight while it ran, and it found
\* the partition holding more than one record over the limit: records left
\* over by runs that failed
RecoveringWrite(p) ==
    /\ WriteCompleted(p) /\ ~h[p].retFailed /\ ~h[p].overlap
    /\ h[p].total > MAX_CHAT_MESSAGES + 1

\* C21: if one or more retention runs failed and left a partition with more
\* than 10 records, the retention run of the next successful write to that
\* partition (with no concurrent writer) brings it back to at most 10
\* records in a single run, whatever the excess.
C21_NextWriteRestores ==
    \A p \in Procs :
        RecoveringWrite(p) =>
            /\ h[p].nDeleted = h[p].total - MAX_CHAT_MESSAGES
            /\ h[p].sizeAtDone <= MAX_CHAT_MESSAGES

\* C21 (witness): the retention run of one handler has failed, and the run
\* of a later write to the same partition has removed the whole excess
C21_Witness ==
    \E p, q \in Procs :
        /\ q < p
        /\ WriteCompleted(q) /\ h[q].retFailed /\ h[q].sizeAtDone > MAX_CHAT_MESSAGES
        /\ Part(h[q]) = Part(h[p])
        /\ RecoveringWrite(p)
        /\ h[p].nDeleted >= 2
        /\ h[p].sizeAtDone = MAX_CHAT_MESSAGES

----------------------------------------------------------------------------
(* Properties of one retention run *)

\* Handler p commits the batch of its retention run in this step
Commits(p) ==
    /\ h[p].pc = "commit" /\ h'[p].pc # "commit"
    /\ failures' = failures

\* C22: a retention run on a partition holding count > 10 records, with no
\* concurrent writer, deletes exactly count - 10 records in one atomic
\* batch (one step), and every deleted record has a timestamp less than or
\* equal to the timestamp of every surviving record.
C22_OldestExcessDeleted ==
    [][\A p \in Procs :
          (Commits(p) /\ ~h[p].overlap /\ h[p].total > MAX_CHAT_MESSAGES) =>
              LET before == messages[Part(h[p])]
                  after == messages'[Part(h[p])]
              IN /\ after \subseteq before
                 /\ Cardinality(before \ after) = h[p].total - MAX_CHAT_MESSAGES
                 /\ Cardinality(after) = MAX_CHAT_MESSAGES
                 /\ \A d \in before \ after : \A m \in after : d.ts <= m.ts
                 /\ \A part \in Partitions \ {Part(h[p])} :
                       messages'[part] = messages[part]]_vars

\* C22 (witness): a cleanup request, alone on its key, has found 12 records
\* and deleted 2 of them
C22_Witness ==
    \E p \in Procs :
        /\ h[p].kind = "cleanup" /\ h[p].pc = "done" /\ h[p].status = 200
        /\ ~h[p].overlap /\ ~h[p].retFailed
        /\ h[p].total = MAX_CHAT_MESSAGES + 2
        /\ h[p].nDeleted = 2
        /\ h[p].sizeAtDone = MAX_CHAT_MESSAGES

----------------------------------------------------------------------------
(* Properties of the order of the steps of a write *)

SendKinds == {"chatSend", "supportSend"}

\* The messages of handler p whose record has been appended
Appended(p) == {w.i : w \in h[p].wrote}

\* C23: in every write handler the steps run in the order append,
\* lastUpdated upsert, retention: retention for a write is invoked only
\* after that write's append and upsert have completed, and it is not
\* invoked at all when the append or the upsert fails.
C23_AppendUpsertRetention ==
    \A p \in Procs :
        h[p].kind \in {"webhook"} \cup SendKinds =>
            /\ h[p].retFor \subseteq h[p].upserted
            /\ h[p].upserted \subseteq Appended(p)
            /\ h[p].pc \in {"count", "select", "commit"} => h[p].i \in h[p].upserted
            /\ h[p].failedAt \in {"add", "set"} => h[p].i \notin h[p].retFor

\* C23 (witness): one handler has run the three steps and been answered 200,
\* and another, whose append succeeded and whose upsert failed, has been
\* answered 500 without a retention run
C23_Witness ==
    \E p, q \in Procs :
        /\ h[p].kind \in {"webhook"} \cup SendKinds /\ h[p].pc = "done"
        /\ h[p].status = 200 /\ h[p].retFor # {} /\ h[p].retFor = Appended(p)
        /\ h[q].kind \in {"webhook"} \cup SendKinds /\ h[q].pc = "done"
        /\ h[q].failedAt = "set" /\ Appended(q) # {} /\ h[q].retFor = {}

----------------------------------------------------------------------------
(* Properties of the body component of a template payload *)

\* The call has built its payload
Built == CallChecked /\ call.payload # <<>>

\* The body components of the payload
BodyComponents ==
    {k \in 1..Len(call.payload[1].components) : call.payload[1].components[k].type = "body"}

\* The descriptor the call used expects body parameters
ExpectsBody == MetaOf(templateMeta, call.templateName.s).bodyParams > 0

\* The places of the named values in the list: 0 or 1 before the date, 0 to
\* 2 before the elements of body
BeforeDate == IF Truthy(call.params[1].tournament) THEN 1 ELSE 0
BeforeBody == BeforeDate + (IF Truthy(call.params[1].date) THEN 1 ELSE 0)
BodyLen == IF call.params[1].hasBody THEN Len(call.params[1].body) ELSE 0

\* C24: when the descriptor expects body parameters, the body component
\* lists the parameters in this order: the tournament value if supplied,
\* then the date value if supplied, then the elements of the array-valued
\* body parameter in their given order; when the descriptor expects zero
\* body parameters no body component is built, whatever the caller supplies.
C24_BodyOrder ==
    Built =>
        IF ExpectsBody
        THEN /\ Cardinality(BodyComponents) = 1
             /\ \A k \in BodyComponents :
                   LET ps == call.payload[1].components[k].parameters
                   IN /\ k = Len(call.payload[1].components)
                      /\ Len(ps) = BeforeBody + BodyLen
                      /\ \A j \in 1..Len(ps) : ps[j].type = "text"
                      /\ Truthy(call.params[1].tournament) =>
                            ps[1].text = call.params[1].tournament.s
                      /\ Truthy(call.params[1].date) =>
                            ps[BeforeDate + 1].text = call.params[1].date.s
                      /\ \A j \in 1..BodyLen :
                            ps[BeforeBody + j].text = call.params[1].body[j]
        ELSE BodyComponents = {}

\* C24 (witness): a payload has been built for a descriptor that expects 2
\* body parameters from a tournament value and a one-element body, and its
\* body component lists the tournament, then the element
C24_Witness ==
    /\ Built /\ ExpectsBody
    /\ Truthy(call.params[1].tournament) /\ ~Truthy(call.params[1].date)
    /\ call.params[1].body = <<"x">>
    /\ \E k \in BodyComponents :
          /\ Len(call.payload[1].components[k].parameters) = 2
          /\ call.payload[1].components[k].parameters[1].text = Cup
          /\ call.payload[1].components[k].parameters[2].text = "x"

----------------------------------------------------------------------------
(* Properties of the Registration update of the image path *)

\* The Registrations that a step changes
Touched ==
    {k \in 1..Len(teamRegistrations) : teamRegistrations'[k] # teamRegistrations[k]}

\* C25: on the image path, the uploaded URL is only ever added to the image
\* list of the first Registration matching the sender's 10-digit key
\* (existing entries are never removed or replaced, and its status flag
\* becomes "image_uploaded"); when no Registration matches, no Registration
\* record is modified and nothing is retried: the handler goes on with the
\* next message.
C25_FirstRegistrationOnly ==
    [][/\ Len(teamRegistrations') >= Len(teamRegistrations)
       /\ \A k \in Touched :
             \E p \in Procs :
                 /\ h[p].pc = "regUpdate"
                 /\ h[p].key = Slice10(h[p].msgs[h[p].i].from)
                 /\ k \in Matching(h[p].key)
                 /\ \A j \in Matching(h[p].key) : k <= j
                 /\ Touched = {k}
                 /\ teamRegistrations'[k].phoneNumber = teamRegistrations[k].phoneNumber
                 /\ teamRegistrations'[k].images =
                       teamRegistrations[k].images \cup {SecureUrl(h[p].msgs[h[p].i].image)}
                 /\ teamRegistrations'[k].verificationStatus = "image_uploaded"
       /\ \A p \in Procs :
             (h[p].pc = "regQuery" /\ Matching(h[p].key) = {} /\ h'[p] # h[p]
              /\ failures' = failures) =>
                 /\ teamRegistrations' = teamRegistrations
                 /\ h'[p].pc = "done" \/ h'[p].i > h[p].i]_vars

\* C25 (witness): of two Registrations of the sender, the first holds the
\* URLs of both images of a delivery and the flag, the second is untouched
C25_Witness ==
    /\ Len(teamRegistrations) = 2
    /\ teamRegistrations[1].phoneNumber = teamRegistrations[2].phoneNumber
    /\ teamRegistrations[1].images = {SecureUrl("img1"), SecureUrl("img2")}
    /\ teamRegistrations[1].verificationStatus = "image_uploaded"
    /\ teamRegistrations[2] = Registered(teamRegistrations[2].phoneNumber)
    /\ h[1].pc = "done" /\ h[1].status = 200

----------------------------------------------------------------------------
(* Properties of the lastUpdated field *)

\* The records appended to a partition by writes whose upsert completed,
\* and the records the partition started with
UpsertedRecords(part) ==
    Preload(preloaded)
    \cup UNION {{w.rec : w \in {x \in h[p].wrote :
                                  x.i \in h[p].upserted /\ <<x.cls, x.key>> = part}} :
                p \in Procs}

\* No write handler is in flight
Quiescent == \A p \in Procs : ~(InFlight(h[p]) /\ Writer(h[p]))

\* C26: when no write handler is in flight, the lastUpdated field of a
\* partition equals the greatest timestamp among all records ever appended
\* to it by handlers that completed their upsert.
C26_LastUpdatedIsGreatest ==
    Quiescent =>
        \A part \in Partitions :
            UpsertedRecords(part) # {} =>
                /\ chatDocs[part].exists
                /\ \A r \in UpsertedRecords(part) : r.ts <= chatDocs[part].lastUpdated
                /\ \E r \in UpsertedRecords(part) : r.ts = chatDocs[part].lastUpdated

----------------------------------------------------------------------------
(* Properties of a handler's own record *)

\* C27: the record a write handler has just appended is never deleted by
\* the retention run that the same handler triggers, under any interleaving
\* with other write handlers on the same partition.
C27_OwnRecordSurvives ==
    [][\A p \in Procs :
          Commits(p) =>
              \A w \in h[p].wrote :
                  (w.i = h[p].i /\ w.rec \in messages[<<w.cls, w.key>>])
                      => w.rec \in messages'[<<w.cls, w.key>>]]_vars

----------------------------------------------------------------------------
(* Properties of the partition document *)

\* C28: whenever a partition's message collection holds at least one
\* record, the partition document exists, so the history endpoint for that
\* key returns a non-empty list; this holds also when a store call fails
\* between the append and the lastUpdated upsert (stated for the states in
\* which no write handler is in flight, and for the history reads that ran
\* with none in flight).
C28_DocumentExists ==
    /\ Quiescent =>
          \A part \in Partitions : messages[part] # {} => chatDocs[part].exists
    /\ \A p \in Procs :
          (HistoryAnswered(p) /\ ~h[p].overlap /\ h[p].seen # {}) => h[p].result # <<>>

----------------------------------------------------------------------------
(* Properties of an admin send whose provider call fails *)

\* Handler p has gone past its provider call into the store
Recording(p) ==
    \/ h[p].pc \in {"add", "set", "count", "select", "commit"}
    \/ h[p].wrote # {}
    \/ h[p].docSet
    \/ h[p].retRan

\* C29: in POST /api/chat/send and POST /api/support/send, an "admin"
\* ChatMessage record is appended only after the provider accepted the
\* send: when the provider send fails, no record is appended to any
\* partition, lastUpdated is not written and retention is not run.
C29_RecordedOnlyAfterSend ==
    \A p \in Procs :
        h[p].kind \in SendKinds =>
            /\ Recording(p) => (h[p].posted /\ h[p].failedAt # "send")
            /\ h[p].failedAt = "send" =>
                  /\ h[p].pc = "done" /\ h[p].status = 500
                  /\ h[p].wrote = {} /\ ~h[p].docSet /\ h[p].upserted = {}
                  /\ ~h[p].retRan /\ h[p].retFor = {}

\* C29 (witness): the provider send of one request has failed and the
\* request was answered 500, while another request was sent and recorded
C29_Witness ==
    \E p, q \in Procs :
        /\ h[p].kind \in SendKinds /\ h[p].failedAt = "send" /\ h[p].status = 500
        /\ h[q].kind \in SendKinds /\ h[q].pc = "done" /\ h[q].status = 200
        /\ h[q].wrote # {} /\ h[q].docSet /\ h[q].retRan

----------------------------------------------------------------------------
(* Properties of POST /api/send-whatsapp *)

\* The number of digits of the phone of the request
DigitCount(v) == Cardinality({k \in 1..Len(v.s) : v.s[k] \in Digits})

\* The digits of the phone of the request, in their order
RECURSIVE DigitsIn(_)
DigitsIn(chars) ==
    IF chars = <<>> THEN <<>>
    ELSE IF Head(chars) \in Digits THEN <<Head(chars)>> \o DigitsIn(Tail(chars))
    ELSE DigitsIn(Tail(chars))

\* The phone is missing, or has fewer than 10 or more than 12 digits
Refused(v) == Falsy(v) \/ DigitCount(v) < 10 \/ DigitCount(v) > 12

\* C30: in POST /api/send-whatsapp, a phone whose digit count (after
\* removing non-digits) is below 10 or above 12, or a missing phone,
\* answers 400 with no provider call; for every accepted phone the number
\* sent to the provider contains digits only, a 10-digit number being
\* prefixed with 91 and an 11- or 12-digit number being sent unchanged; a
\* provider error with code 131009 answers 400 and any other failure
\* answers 500.
C30_GreetingSend ==
    \A p \in Procs :
        (h[p].kind = "greeting" /\ h[p].pc = "done") =>
            IF Refused(h[p].req)
            THEN h[p].status = 400 /\ ~h[p].posted
            ELSE IF ~h[p].posted
            THEN h[p].status = 500
            ELSE /\ IsDigits(h[p].to)
                 /\ DigitCount(h[p].req) = 10 =>
                       h[p].to = <<"9", "1">> \o DigitsIn(h[p].req.s)
                 /\ DigitCount(h[p].req) \in {11, 12} =>
                       h[p].to = DigitsIn(h[p].req.s)
                 /\ h[p].status =
                       IF h[p].outcome[1].ok THEN 200
                       ELSE IF h[p].outcome[1].response
                               /\ h[p].outcome[1].code = PARAM_INVALID THEN 400
                       ELSE 500

====
